---- MODULE Spec2Model ----
(***************************************************************************)
(* A model of the pycaching policy engine: the metadata/TTL substrate of   *)
(* BaseBackend over MemoryBackend, the caching strategies and the          *)
(* CacheManager that composes one backend with one strategy.               *)
(*                                                                         *)
(* Python's Optional[x] is modelled as a sequence: <<>> is None and <<x>>  *)
(* is the value x.  A cache value is a string; the string "None" is the    *)
(* Python value None (what get() returns on a miss).  Time (time.time()    *)
(* and datetime.now()) is one integer clock, now, advanced by Tick.        *)
(***************************************************************************)
EXTENDS Integers, Sequences, FiniteSets, TLC

VARIABLES
    store,            \* MemoryBackend._store: key -> value (a dict)
    meta,             \* BaseBackend._metadata: key -> CacheMetadata
    enable_metadata,  \* BaseBackend.enable_metadata
    closed,           \* BaseBackend._closed
    now,              \* the clock
    config,           \* CacheManager.config: namespace, key_prefix, default_ttl
    strategy,         \* the Strategy instance in use: its class and settings
    expect,           \* history: per key, the value and deadline of its last set
    last,             \* the last completed call: what it was and what it gave
    access_order,     \* LRUEvictionStrategy._access_order (an OrderedDict)
    access_counts,    \* LFUEvictionStrategy._access_counts (a dict, in order)
    insertion_order,  \* FIFOEvictionStrategy._insertion_order (a deque)
    pc,               \* per thread: the call it is inside and where
    ds,               \* the data store the write callback writes: key -> value
    _write_queue,     \* WriteBackStrategy._write_queue (a dict, in order)
    _last_flush,      \* WriteBackStrategy._last_flush
    _running,         \* RefreshAheadStrategy._running
    _refresh_times,   \* RefreshAheadStrategy._refresh_times: key -> time
    workers           \* the refresh threads started and not yet ended

backendVars == <<store, meta, enable_metadata, closed>>
evictVars == <<access_order, access_counts, insertion_order>>
wbVars == <<_write_queue, _last_flush>>
raVars == <<_running, _refresh_times, workers>>
strategyVars == <<evictVars, wbVars, raVars, pc, ds>>
vars == <<store, meta, enable_metadata, closed, now, config, strategy,
          expect, last, access_order, access_counts, insertion_order,
          pc, ds, _write_queue, _last_flush, _running, _refresh_times,
          workers>>

----------------------------------------------------------------------------
(* Bounds of the model. *)

MaxTime == 1        \* the clock runs from 0 to MaxTime
MaxAccess == 1      \* a metadata record is read at most MaxAccess times
MaxSize == 2        \* an eviction strategy is built with max_size in 1..MaxSize

Values == {"v1", "v2"}
TTLs == {1, 2}      \* the positive ttl values a caller passes, in clock ticks

None == <<>>
Some(x) == <<x>>
IsNone(o) == o = <<>>
The(o) == o[1]

NoValue == "None"

----------------------------------------------------------------------------
(* Python dicts as functions on a finite domain. *)

Put(f, k, v) == [x \in (DOMAIN f) \cup {k} |-> IF x = k THEN v ELSE f[x]]
Drop(f, k) == [x \in (DOMAIN f) \ {k} |-> f[x]]
Empty == [x \in {} |-> x]

----------------------------------------------------------------------------
(* CacheMetadata (core/types.py). *)

NewMetadata(expires_at, t) ==
    [created_at |-> t, expires_at |-> expires_at,
     access_count |-> 0, last_accessed |-> t]

is_expired(m, t) ==
    IF IsNone(m.expires_at) THEN FALSE ELSE t >= The(m.expires_at)

update_access(m, t) ==
    [m EXCEPT !.access_count = @ + 1, !.last_accessed = t]

----------------------------------------------------------------------------
(* BaseBackend (backends/base.py) over MemoryBackend (backends/memory.py). *)
(* A backend state b is [store, meta]; em is enable_metadata and t is the  *)
(* time of the call.  Each operation gives the new state and its result.   *)

\* A variant that leaves the expiry of an existing record alone when the
\* set gives no ttl.
_set_metadata_keeps_expiry(b, em, k, ttl, t) ==
    IF ~em THEN b.meta
    ELSE LET expires_at == IF IsNone(ttl) THEN None ELSE Some(t + The(ttl))
         IN IF k \in DOMAIN b.meta
            THEN IF IsNone(ttl) THEN b.meta
                 ELSE [b.meta EXCEPT ![k].expires_at = expires_at]
            ELSE Put(b.meta, k, NewMetadata(expires_at, t))

\* A variant that replaces the record of the key by a new one at every set.
_set_metadata_fresh_record(b, em, k, ttl, t) ==
    IF ~em THEN b.meta
    ELSE Put(b.meta, k,
             NewMetadata(IF IsNone(ttl) THEN None ELSE Some(t + The(ttl)), t))

_set_metadata(b, em, k, ttl, t) ==
    IF ~em THEN b.meta
    ELSE LET expires_at == IF IsNone(ttl) THEN None ELSE Some(t + The(ttl))
         IN IF k \in DOMAIN b.meta
            THEN [b.meta EXCEPT ![k].expires_at = expires_at]
            ELSE Put(b.meta, k, NewMetadata(expires_at, t))

_update_access_metadata(b, em, k, t) ==
    IF em /\ k \in DOMAIN b.meta
    THEN [b.meta EXCEPT ![k] = update_access(@, t)]
    ELSE b.meta

\* A variant that keeps the record of a deleted key.
_delete_metadata_keeps_record(b, em, k) == b.meta

_delete_metadata(b, em, k) ==
    IF em THEN Drop(b.meta, k) ELSE b.meta

_clear_metadata(b, em) ==
    IF em THEN Empty ELSE b.meta

_is_expired(b, em, k, t) ==
    IF ~em THEN FALSE
    ELSE IF k \notin DOMAIN b.meta THEN FALSE
    ELSE is_expired(b.meta[k], t)

_get_impl(b, k) == IF k \in DOMAIN b.store THEN b.store[k] ELSE NoValue

_exists_impl(b, k) == k \in DOMAIN b.store

backend_delete(b, em, k) ==
    LET result == k \in DOMAIN b.store
    IN [store |-> Drop(b.store, k),
        meta |-> IF result THEN _delete_metadata(b, em, k) ELSE b.meta,
        result |-> result]

backend_get(b, em, k, t) ==
    IF _is_expired(b, em, k, t)
    THEN LET d == backend_delete(b, em, k)
         IN [store |-> d.store, meta |-> d.meta, result |-> NoValue]
    ELSE LET value == _get_impl(b, k)
         IN [store |-> b.store,
             meta |-> IF value # NoValue
                      THEN _update_access_metadata(b, em, k, t)
                      ELSE b.meta,
             result |-> value]

backend_set(b, em, k, v, ttl, t) ==
    LET s == [store |-> Put(b.store, k, v), meta |-> b.meta]
    IN [store |-> s.store,
        meta |-> _set_metadata(s, em, k, ttl, t),
        result |-> TRUE]

backend_clear(b, em) ==
    [store |-> Empty, meta |-> _clear_metadata(b, em), result |-> TRUE]

backend_exists(b, em, k, t) ==
    IF _is_expired(b, em, k, t)
    THEN LET d == backend_delete(b, em, k)
         IN [store |-> d.store, meta |-> d.meta, result |-> FALSE]
    ELSE [store |-> b.store, meta |-> b.meta, result |-> _exists_impl(b, k)]

backend_size(b) == Cardinality(DOMAIN b.store)

backend_keys(b) == DOMAIN b.store

Backend == [store |-> store, meta |-> meta]

\* A get that would push a record's access_count past MaxAccess is not taken.
CanRead(b, k) ==
    k \in DOMAIN b.meta => b.meta[k].access_count < MaxAccess

----------------------------------------------------------------------------
(* What a call gives back: the backend state after it, the value (get) or  *)
(* the boolean (set, delete, exists, clear) it returned, the exception it  *)
(* raised ("" when it returned), and the callbacks it invoked, in order.   *)

Ret(b, value, ok, calls) ==
    [store |-> b.store, meta |-> b.meta, value |-> value, ok |-> ok,
     raised |-> "", calls |-> calls]

Raise(b, err, calls) ==
    [store |-> b.store, meta |-> b.meta, value |-> NoValue, ok |-> FALSE,
     raised |-> err, calls |-> calls]

\* BaseBackend._check_closed (core/backend.py): every backend call of a closed
\* backend raises BackendError.
_check_closed(cl) == IF cl THEN "BackendError" ELSE ""

----------------------------------------------------------------------------
(* The strategies that keep no state of their own.  cb is the miss         *)
(* callback: None when the caller passes none, Some(r) when the callback   *)
(* returns r for the key.                                                  *)

\* BaseStrategy.set (strategies/base.py), CacheAsideStrategy.set
Base_set(b, em, cl, k, v, ttl, t) ==
    IF cl THEN Raise(b, _check_closed(cl), <<>>)
    ELSE Ret(backend_set(b, em, k, v, ttl, t), NoValue, TRUE, <<>>)

\* BaseStrategy.delete (strategies/base.py)
Base_delete(b, em, cl, k) ==
    IF cl THEN Raise(b, _check_closed(cl), <<>>)
    ELSE LET d == backend_delete(b, em, k) IN Ret(d, NoValue, d.result, <<>>)

\* BaseStrategy.clear (core/strategy.py)
Base_clear(b, em, cl) ==
    IF cl THEN Raise(b, _check_closed(cl), <<>>)
    ELSE Ret(backend_clear(b, em), NoValue, TRUE, <<>>)

\* BaseBackend.exists as a call: _check_closed, which raises on a closed
\* backend, and then the lazy expiry and _exists_impl.
Checked_exists(b, em, cl, k, t) ==
    IF cl THEN Raise(b, _check_closed(cl), <<>>)
    ELSE LET e == backend_exists(b, em, k, t)
         IN Ret(e, NoValue, e.result, <<>>)

\* A get that returns the computed value and does not store it.
CacheAside_get_forgets(b, em, cl, k, cb, t) ==
    IF cl THEN Raise(b, _check_closed(cl), <<>>)
    ELSE LET g == backend_get(b, em, k, t)
         IN IF g.result = NoValue /\ ~IsNone(cb)
            THEN Ret(g, The(cb), FALSE, << <<"miss_callback", k, The(cb)>> >>)
            ELSE Ret(g, g.result, FALSE, <<>>)

\* CacheAsideStrategy.get (strategies/cache_aside.py)
CacheAside_get(b, em, cl, k, cb, t) ==
    IF cl THEN Raise(b, _check_closed(cl), <<>>)
    ELSE LET g == backend_get(b, em, k, t)
         IN IF g.result = NoValue /\ ~IsNone(cb)
            THEN LET value == The(cb)
                     calls == << <<"miss_callback", k, value>> >>
                 IN IF value # NoValue
                    THEN Ret(backend_set(g, em, k, value, None, t),
                             value, FALSE, calls)
                    ELSE Ret(g, value, FALSE, calls)
            ELSE Ret(g, g.result, FALSE, <<>>)

\* TTLStrategy.set (strategies/ttl.py)
TTL_set(b, em, cl, default_ttl, k, v, ttl, t) ==
    LET effective_ttl == IF ~IsNone(ttl) THEN ttl ELSE default_ttl
    IN IF IsNone(effective_ttl) THEN Raise(b, "StrategyError", <<>>)
       ELSE IF The(effective_ttl) <= 0 THEN Raise(b, "StrategyError", <<>>)
       ELSE IF cl THEN Raise(b, _check_closed(cl), <<>>)
       ELSE Ret(backend_set(b, em, k, v, effective_ttl, t), NoValue, TRUE, <<>>)

\* TTLStrategy.get (strategies/ttl.py), which is BaseStrategy.get
\* (strategies/base.py) with TTLStrategy.set admitting the computed value.
TTL_get(b, em, cl, default_ttl, k, cb, t) ==
    IF cl THEN Raise(b, _check_closed(cl), <<>>)
    ELSE LET g == backend_get(b, em, k, t)
         IN IF g.result = NoValue /\ ~IsNone(cb)
            THEN LET value == The(cb)
                     calls == << <<"miss_callback", k, value>> >>
                 IN IF value # NoValue
                    THEN LET s == TTL_set(g, em, cl, default_ttl, k, value, None, t)
                         IN IF s.raised # "" THEN Raise(g, s.raised, calls)
                            ELSE Ret(s, value, FALSE, calls)
                    ELSE Ret(g, value, FALSE, calls)
            ELSE Ret(g, g.result, FALSE, <<>>)

----------------------------------------------------------------------------
(* Dispatch on the class of the strategy instance. *)

Strategy_get(s, b, em, cl, k, cb, t) ==
    CASE s.kind = "cache_aside" -> CacheAside_get(b, em, cl, k, cb, t)
      [] s.kind = "ttl" -> TTL_get(b, em, cl, s.default_ttl, k, cb, t)

Strategy_set(s, b, em, cl, k, v, ttl, t) ==
    CASE s.kind = "cache_aside" -> Base_set(b, em, cl, k, v, ttl, t)
      [] s.kind = "ttl" -> TTL_set(b, em, cl, s.default_ttl, k, v, ttl, t)

Strategy_delete(s, b, em, cl, k) ==
    CASE s.kind \in {"cache_aside", "ttl"} -> Base_delete(b, em, cl, k)

Strategy_clear(s, b, em, cl) ==
    CASE s.kind \in {"cache_aside", "ttl"} -> Base_clear(b, em, cl)

----------------------------------------------------------------------------
(* CacheManager (core/cache.py).  Every operation runs under the manager's *)
(* lock, so each is one step here.                                         *)

LogicalKeys == {"a", "b"}

\* A _make_key that puts the prefix before the namespace.
_make_key_prefix_first(cfg, key) ==
    LET parts == (IF cfg.key_prefix # "" THEN <<cfg.key_prefix>> ELSE <<>>)
                 \o (IF cfg.namespace # "" THEN <<cfg.namespace>> ELSE <<>>)
                 \o <<key>>
    IN CASE Len(parts) = 1 -> parts[1]
         [] Len(parts) = 2 -> parts[1] \o ":" \o parts[2]
         [] Len(parts) = 3 -> parts[1] \o ":" \o parts[2] \o ":" \o parts[3]

\* CacheManager._make_key
_make_key(cfg, key) ==
    LET parts == (IF cfg.namespace # "" THEN <<cfg.namespace>> ELSE <<>>)
                 \o (IF cfg.key_prefix # "" THEN <<cfg.key_prefix>> ELSE <<>>)
                 \o <<key>>
    IN CASE Len(parts) = 1 -> parts[1]
         [] Len(parts) = 2 -> parts[1] \o ":" \o parts[2]
         [] Len(parts) = 3 -> parts[1] \o ":" \o parts[2] \o ":" \o parts[3]

\* CacheManager.set: "ttl = ttl or self.config.default_ttl"
Manager_ttl(cfg, ttl) ==
    IF IsNone(ttl) \/ The(ttl) = 0 THEN cfg.default_ttl ELSE ttl

Manager_get(cfg, s, b, em, cl, key, cb, t) ==
    Strategy_get(s, b, em, cl, _make_key(cfg, key), cb, t)

Manager_set(cfg, s, b, em, cl, key, v, ttl, t) ==
    Strategy_set(s, b, em, cl, _make_key(cfg, key), v, Manager_ttl(cfg, ttl), t)

Manager_delete(cfg, s, b, em, cl, key) ==
    Strategy_delete(s, b, em, cl, _make_key(cfg, key))

Manager_exists(cfg, b, em, cl, key, t) ==
    Checked_exists(b, em, cl, _make_key(cfg, key), t)

Manager_clear(s, b, em, cl) == Strategy_clear(s, b, em, cl)

\* CacheManager.size: len(self._store) under the backend's lock;
\* MemoryBackend.size does not look at _closed.  The call returns the count.
Manager_size(b, cl) == Ret(b, NoValue, backend_size(b), <<>>)

----------------------------------------------------------------------------
(* The record of the last completed call. *)

Call(op, key, r) ==
    [op |-> op, key |-> key, value |-> r.value, ok |-> r.ok,
     raised |-> r.raised, calls |-> r.calls]

NoCall ==
    [op |-> "init", key |-> "", value |-> NoValue, ok |-> FALSE,
     raised |-> "", calls |-> <<>>]

TickCall == [NoCall EXCEPT !.op = "tick"]

\* The deadline a set with this ttl gives its key: now + ttl, or none.
Deadline(ttl, t) == IF IsNone(ttl) THEN None ELSE Some(t + The(ttl))

\* Whether the last set of k, recorded in e, has expired by time t.
Expired(e, k, t) == ~IsNone(e[k].deadline) /\ t >= The(e[k].deadline)

Live(e, k, t) == k \in DOMAIN e /\ ~Expired(e, k, t)

----------------------------------------------------------------------------
(* The application's calls, on the manager and on the backend directly     *)
(* (the backend is the application's own object: tests/test_strategies.py  *)
(* reads it next to the strategy).  SpecMgr: one MemoryBackend, one        *)
(* stateless strategy, one CacheManager, one thread.                       *)

\* kind "none": the application uses the MemoryBackend directly.
NoStrategy == [kind |-> "none", default_ttl |-> None]

DefaultConfig ==
    [namespace |-> "default", key_prefix |-> "", default_ttl |-> None]

\* The managers of the model: a configuration and a strategy instance.
Setups ==
    { [config |-> DefaultConfig, strategy |-> NoStrategy],
      [config |-> DefaultConfig,
       strategy |-> [kind |-> "cache_aside", default_ttl |-> None]],
      [config |-> [namespace |-> "test", key_prefix |-> "app",
                   default_ttl |-> None],
       strategy |-> [kind |-> "ttl", default_ttl |-> Some(1)]] }

CallTTLs == {None} \cup {Some(x) : x \in TTLs}
Callbacks == {None, Some("v1"), Some(NoValue)}

FullKeys == {_make_key(config, k) : k \in LogicalKeys}

\* The ttl the caller of CacheManager.set is entitled to: the per-call ttl,
\* else the manager's default, else the TTL strategy's default.
EntitledTTL(cfg, s, ttl) ==
    IF ~IsNone(ttl) THEN ttl
    ELSE IF ~IsNone(cfg.default_ttl) THEN cfg.default_ttl
    ELSE s.default_ttl

InitBackend ==
    /\ store = Empty
    /\ meta = Empty
    /\ enable_metadata \in BOOLEAN
    /\ closed = FALSE
    /\ now = 0
    /\ expect = Empty
    /\ last = NoCall

\* The state of the strategies after construction.
InitStrategy ==
    /\ access_order = <<>>
    /\ access_counts = <<>>
    /\ insertion_order = <<>>
    /\ ds = Empty
    /\ _write_queue = <<>>
    /\ _last_flush = 0
    /\ _running = FALSE
    /\ _refresh_times = Empty
    /\ workers = <<>>

InitMgr ==
    /\ InitBackend
    /\ InitStrategy
    /\ pc = <<>>
    /\ \E su \in Setups : config = su.config /\ strategy = su.strategy

Tick ==
    /\ now < MaxTime
    /\ now' = now + 1
    /\ last' = TickCall
    /\ UNCHANGED <<backendVars, config, strategy, expect, strategyVars>>

\* The effect of a completed call r on the backend and on the call record.
Done(op, key, r) ==
    /\ store' = r.store
    /\ meta' = r.meta
    /\ last' = Call(op, key, r)
    /\ UNCHANGED <<enable_metadata, closed, now, config, strategy,
                   strategyVars>>

M_Get(key, cb) ==
    LET fk == _make_key(config, key)
        r == Manager_get(config, strategy, Backend, enable_metadata, closed,
                         key, cb, now)
    IN /\ strategy.kind # "none"
       /\ CanRead(Backend, fk)
       /\ Done("get", fk, r)
       /\ expect' = IF r.calls # <<>> THEN Drop(expect, fk) ELSE expect

M_Set(key, v, ttl) ==
    LET fk == _make_key(config, key)
        r == Manager_set(config, strategy, Backend, enable_metadata, closed,
                         key, v, ttl, now)
        e == [value |-> v,
              deadline |-> Deadline(EntitledTTL(config, strategy, ttl), now)]
    IN /\ strategy.kind # "none"
       /\ Done("set", fk, r)
       /\ expect' = IF r.raised = "" /\ r.ok THEN Put(expect, fk, e) ELSE expect

M_Delete(key) ==
    LET fk == _make_key(config, key)
        r == Manager_delete(config, strategy, Backend, enable_metadata, closed,
                            key)
    IN /\ strategy.kind # "none"
       /\ Done("delete", fk, r)
       /\ expect' = Drop(expect, fk)

M_Exists(key) ==
    LET fk == _make_key(config, key)
        r == Manager_exists(config, Backend, enable_metadata, closed, key, now)
    IN /\ strategy.kind # "none"
       /\ Done("exists", fk, r)
       /\ UNCHANGED expect

M_Clear ==
    LET r == Manager_clear(strategy, Backend, enable_metadata, closed)
    IN /\ strategy.kind # "none"
       /\ Done("clear", "", r)
       /\ expect' = Empty

M_Size ==
    LET r == Manager_size(Backend, closed)
    IN /\ strategy.kind # "none"
       /\ Done("size", "", r)
       /\ UNCHANGED expect

\* MemoryBackend called directly, at the keys the manager writes.
B_Get(fk) ==
    LET g == backend_get(Backend, enable_metadata, fk, now)
    IN /\ strategy.kind = "none"
       /\ ~closed
       /\ CanRead(Backend, fk)
       /\ Done("backend.get", fk, Ret(g, g.result, FALSE, <<>>))
       /\ UNCHANGED expect

B_Set(fk, v, ttl) ==
    LET r == backend_set(Backend, enable_metadata, fk, v, ttl, now)
        e == [value |-> v, deadline |-> Deadline(ttl, now)]
    IN /\ strategy.kind = "none"
       /\ ~closed
       /\ Done("backend.set", fk, Ret(r, NoValue, r.result, <<>>))
       /\ expect' = Put(expect, fk, e)

B_Delete(fk) ==
    LET d == backend_delete(Backend, enable_metadata, fk)
    IN /\ strategy.kind = "none"
       /\ ~closed
       /\ Done("backend.delete", fk, Ret(d, NoValue, d.result, <<>>))
       /\ expect' = Drop(expect, fk)

B_Exists(fk) ==
    LET e == backend_exists(Backend, enable_metadata, fk, now)
    IN /\ strategy.kind = "none"
       /\ ~closed
       /\ Done("backend.exists", fk, Ret(e, NoValue, e.result, <<>>))
       /\ UNCHANGED expect

B_Clear ==
    LET c == backend_clear(Backend, enable_metadata)
    IN /\ strategy.kind = "none"
       /\ ~closed
       /\ Done("backend.clear", "", Ret(c, NoValue, c.result, <<>>))
       /\ expect' = Empty

NextMgr ==
    \/ Tick
    \/ \E key \in LogicalKeys, cb \in Callbacks : M_Get(key, cb)
    \/ \E key \in LogicalKeys, v \in Values, ttl \in CallTTLs : M_Set(key, v, ttl)
    \/ \E key \in LogicalKeys : M_Delete(key)
    \/ \E key \in LogicalKeys : M_Exists(key)
    \/ M_Clear
    \/ M_Size
    \/ \E fk \in FullKeys : B_Get(fk)
    \/ \E fk \in FullKeys, v \in Values, ttl \in CallTTLs : B_Set(fk, v, ttl)
    \/ \E fk \in FullKeys : B_Delete(fk)
    \/ \E fk \in FullKeys : B_Exists(fk)
    \/ B_Clear

SpecMgr == InitMgr /\ [][NextMgr]_vars

----------------------------------------------------------------------------
(* Claims C9 and C10, under SpecMgr. *)

IsGet == last.op \in {"get", "backend.get"} /\ last.raised = ""
IsExists == last.op \in {"exists", "backend.exists"} /\ last.raised = ""
IsDelete == last.op \in {"delete", "backend.delete"} /\ last.raised = ""

\* The last set of the key of the last call, when the call did not itself
\* write the key: still within its ttl, or past it.
LastKeyLive == last.calls = <<>> /\ Live(expect, last.key, now)
LastKeyExpired ==
    /\ last.calls = <<>>
    /\ last.key \in DOMAIN expect
    /\ Expired(expect, last.key, now)

\* C9: lazy expiry.  After set(k, v, ttl) with ttl > 0 and no later set of k,
\* a get(k) before set-time + ttl returns v; from set-time + ttl on, get(k)
\* returns absent and exists(k) returns false, and the access leaves neither
\* a store entry nor a metadata record of k.  This is stated for every
\* backend, whatever its enable_metadata setting, and for the manager over a
\* TTLStrategy.
C9_LazyExpiry ==
    /\ IsGet /\ LastKeyLive /\ ~IsNone(expect[last.key].deadline)
         => last.value = expect[last.key].value
    /\ IsGet /\ LastKeyExpired
         => /\ last.value = NoValue
            /\ last.key \notin DOMAIN store
            /\ last.key \notin DOMAIN meta
    /\ IsExists /\ LastKeyExpired
         => /\ ~last.ok
            /\ last.key \notin DOMAIN store
            /\ last.key \notin DOMAIN meta

\* C9 restricted to backends that keep metadata (the default): it holds there.
C9_LazyExpiryWithMetadata == enable_metadata => C9_LazyExpiry

C9_Witness ==
    /\ enable_metadata
    /\ strategy.kind = "ttl"
    /\ IsGet /\ LastKeyExpired
    /\ last.value = NoValue

\* C10: set/get round trip.  While the last set(k, v) of a key has been
\* followed by no delete(k), no clear() and no expiry of k, get(k) returns
\* v, exists(k) is true and k is among the keys size() counts; right after
\* delete(k) returned true, exists(k) is false.
C10_RoundTrip ==
    /\ IsGet /\ LastKeyLive => last.value = expect[last.key].value
    /\ IsExists /\ LastKeyLive => last.ok
    /\ \A k \in DOMAIN expect :
          Live(expect, k, now) =>
              /\ k \in backend_keys(Backend)
              /\ backend_size(Backend) >= 1
    /\ IsDelete /\ last.ok =>
          ~backend_exists(Backend, enable_metadata, last.key, now).result

C10_Witness ==
    /\ enable_metadata
    /\ strategy.kind = "cache_aside"
    /\ last.op = "get" /\ last.raised = ""
    /\ LastKeyLive
    /\ ~IsNone(expect[last.key].deadline)
    /\ now > 0
    /\ last.value = "v2"

----------------------------------------------------------------------------
(* The eviction strategies (strategies/eviction.py).  Each operation takes *)
(* the strategy's index idx and max_size ms and gives, next to the result, *)
(* the index after it.  The index of LRU and FIFO is the sequence of keys  *)
(* in the order the OrderedDict or deque holds them; the index of LFU is   *)
(* the dict's items, [key, count], in the order the dict iterates them.    *)

InSeq(q, k) == \E i \in 1..Len(q) : q[i] = k
SeqRemove(q, k) == SelectSeq(q, LAMBDA x : x # k)
SeqKeys(q) == {q[i] : i \in 1..Len(q)}

EvRet(r, index) ==
    [store |-> r.store, meta |-> r.meta, value |-> r.value, ok |-> r.ok,
     raised |-> r.raised, calls |-> r.calls, index |-> index]

\* A set that evicts the most recently used key instead of the least.
LRU_set_locked_evicts_newest(idx, ms, b, em, k) ==
    LET evict == ~InSeq(idx, k) /\ Len(idx) >= ms
        mru_key == idx[Len(idx)]
        idx1 == IF evict THEN SubSeq(idx, 1, Len(idx) - 1) ELSE idx
    IN [evict |-> evict,
        backend |-> IF evict THEN backend_delete(b, em, mru_key) ELSE b,
        popped |-> idx,
        index |-> Append(SeqRemove(idx1, k), k)]

\* LRUEvictionStrategy.set, the part under self._lock: evict the least
\* recently used key when k is new and the index is full, then put k last.
LRU_set_locked(idx, ms, b, em, k) ==
    LET evict == ~InSeq(idx, k) /\ Len(idx) >= ms
        lru_key == Head(idx)
        idx1 == IF evict THEN Tail(idx) ELSE idx
    IN [evict |-> evict,
        backend |-> IF evict THEN backend_delete(b, em, lru_key) ELSE b,
        popped |-> idx,
        index |-> Append(SeqRemove(idx1, k), k)]

\* LRUEvictionStrategy.set
LRU_set(idx, ms, b, em, cl, k, v, ttl, t) ==
    LET l == LRU_set_locked(idx, ms, b, em, k)
    IN IF l.evict /\ cl
       THEN EvRet(Raise(b, _check_closed(cl), <<>>), l.popped)
       ELSE IF cl THEN EvRet(Raise(b, _check_closed(cl), <<>>), l.index)
       ELSE EvRet(Ret(backend_set(l.backend, em, k, v, ttl, t), NoValue, TRUE,
                      <<>>), l.index)

\* A get hit that leaves a tracked key where it is in the order.
LRU_get_locked_keeps_place(idx, k) ==
    IF InSeq(idx, k) THEN idx ELSE Append(idx, k)

\* LRUEvictionStrategy.get, the part under self._lock after a hit.
LRU_get_locked(idx, k) == Append(SeqRemove(idx, k), k)

\* LRUEvictionStrategy.get
LRU_get(idx, ms, b, em, cl, k, cb, t) ==
    IF cl THEN EvRet(Raise(b, _check_closed(cl), <<>>), idx)
    ELSE LET g == backend_get(b, em, k, t)
         IN IF g.result # NoValue
            THEN EvRet(Ret(g, g.result, FALSE, <<>>), LRU_get_locked(idx, k))
            ELSE IF ~IsNone(cb)
            THEN LET value == The(cb)
                     calls == << <<"miss_callback", k, value>> >>
                     r == LRU_set(idx, ms, g, em, cl, k, value, None, t)
                 IN IF value # NoValue
                    THEN EvRet(Ret(r, value, FALSE, calls), r.index)
                    ELSE EvRet(Ret(g, value, FALSE, calls), idx)
            ELSE EvRet(Ret(g, NoValue, FALSE, <<>>), idx)

\* LRUEvictionStrategy.delete
LRU_delete(idx, b, em, cl, k) ==
    IF cl THEN EvRet(Raise(b, _check_closed(cl), <<>>), idx)
    ELSE LET d == backend_delete(b, em, k)
         IN EvRet(Ret(d, NoValue, d.result, <<>>),
                  IF d.result THEN SeqRemove(idx, k) ELSE idx)

\* LRUEvictionStrategy.clear
LRU_clear(idx, b, em, cl) ==
    IF cl THEN EvRet(Raise(b, _check_closed(cl), <<>>), <<>>)
    ELSE EvRet(Ret(backend_clear(b, em), NoValue, TRUE, <<>>), <<>>)

CountKeys(c) == {c[i].key : i \in 1..Len(c)}
CountOf(c, k) == LET i == CHOOSE i \in 1..Len(c) : c[i].key = k IN c[i].count
CountRemove(c, k) == SelectSeq(c, LAMBDA x : x.key # k)

\* The first item whose count is the greatest.
LFU_min_takes_most_used(c) ==
    LET i == CHOOSE i \in 1..Len(c) :
                 /\ \A j \in 1..Len(c) : c[i].count >= c[j].count
                 /\ \A j \in 1..(i - 1) : c[j].count < c[i].count
    IN c[i].key

\* The last item, in the dict's order, whose count is the least.
LFU_min_takes_last_least(c) ==
    LET i == CHOOSE i \in 1..Len(c) :
                 /\ \A j \in 1..Len(c) : c[i].count <= c[j].count
                 /\ \A j \in (i + 1)..Len(c) : c[j].count > c[i].count
    IN c[i].key

\* min(self._access_counts.items(), key=lambda x: x[1])[0]: the first item,
\* in the dict's order, whose count is the least.
LFU_min(c) ==
    LET i == CHOOSE i \in 1..Len(c) :
                 /\ \A j \in 1..Len(c) : c[i].count <= c[j].count
                 /\ \A j \in 1..(i - 1) : c[j].count > c[i].count
    IN c[i].key

\* LFUEvictionStrategy.set, the part under self._lock: evict the least
\* frequently used key when k is new and the index is full, then give a new
\* k the count 0.
LFU_set_locked(idx, ms, b, em, k) ==
    LET evict == k \notin CountKeys(idx) /\ Len(idx) >= ms
        lfu_key == LFU_min(idx)
        idx1 == IF evict THEN CountRemove(idx, lfu_key) ELSE idx
    IN [evict |-> evict,
        backend |-> IF evict THEN backend_delete(b, em, lfu_key) ELSE b,
        popped |-> idx,
        index |-> IF k \notin CountKeys(idx1)
                  THEN Append(idx1, [key |-> k, count |-> 0])
                  ELSE idx1]

\* LFUEvictionStrategy.set
LFU_set(idx, ms, b, em, cl, k, v, ttl, t) ==
    LET l == LFU_set_locked(idx, ms, b, em, k)
    IN IF l.evict /\ cl
       THEN EvRet(Raise(b, _check_closed(cl), <<>>), l.popped)
       ELSE IF cl THEN EvRet(Raise(b, _check_closed(cl), <<>>), l.index)
       ELSE EvRet(Ret(backend_set(l.backend, em, k, v, ttl, t), NoValue, TRUE,
                      <<>>), l.index)

\* LFUEvictionStrategy.get, the part under self._lock after a hit.
LFU_get_locked(idx, k) ==
    IF k \in CountKeys(idx)
    THEN [i \in 1..Len(idx) |->
            IF idx[i].key = k THEN [idx[i] EXCEPT !.count = @ + 1]
            ELSE idx[i]]
    ELSE Append(idx, [key |-> k, count |-> 1])

\* LFUEvictionStrategy.get
LFU_get(idx, ms, b, em, cl, k, cb, t) ==
    IF cl THEN EvRet(Raise(b, _check_closed(cl), <<>>), idx)
    ELSE LET g == backend_get(b, em, k, t)
         IN IF g.result # NoValue
            THEN EvRet(Ret(g, g.result, FALSE, <<>>), LFU_get_locked(idx, k))
            ELSE IF ~IsNone(cb)
            THEN LET value == The(cb)
                     calls == << <<"miss_callback", k, value>> >>
                     r == LFU_set(idx, ms, g, em, cl, k, value, None, t)
                 IN IF value # NoValue
                    THEN EvRet(Ret(r, value, FALSE, calls), r.index)
                    ELSE EvRet(Ret(g, value, FALSE, calls), idx)
            ELSE EvRet(Ret(g, NoValue, FALSE, <<>>), idx)

\* LFUEvictionStrategy.delete
LFU_delete(idx, b, em, cl, k) ==
    IF cl THEN EvRet(Raise(b, _check_closed(cl), <<>>), idx)
    ELSE LET d == backend_delete(b, em, k)
         IN EvRet(Ret(d, NoValue, d.result, <<>>),
                  IF d.result THEN CountRemove(idx, k) ELSE idx)

\* LFUEvictionStrategy.clear
LFU_clear(idx, b, em, cl) ==
    IF cl THEN EvRet(Raise(b, _check_closed(cl), <<>>), <<>>)
    ELSE EvRet(Ret(backend_clear(b, em), NoValue, TRUE, <<>>), <<>>)

\* A set that puts a key it overwrites back at the end of the queue.
FIFO_set_locked_requeues(idx, ms, b, em, k) ==
    LET evict == ~InSeq(idx, k) /\ Len(idx) >= ms
        oldest_key == Head(idx)
        idx1 == IF evict THEN Tail(idx) ELSE idx
    IN [evict |-> evict,
        backend |-> IF evict THEN backend_delete(b, em, oldest_key) ELSE b,
        popped |-> idx1,
        index |-> Append(SeqRemove(idx1, k), k)]

\* FIFOEvictionStrategy.set, the part under self._lock: pop the oldest key
\* and delete it when k is new and the index is full, then append a new k.
FIFO_set_locked(idx, ms, b, em, k) ==
    LET evict == ~InSeq(idx, k) /\ Len(idx) >= ms
        oldest_key == Head(idx)
        idx1 == IF evict THEN Tail(idx) ELSE idx
    IN [evict |-> evict,
        backend |-> IF evict THEN backend_delete(b, em, oldest_key) ELSE b,
        popped |-> idx1,
        index |-> IF ~InSeq(idx1, k) THEN Append(idx1, k) ELSE idx1]

\* FIFOEvictionStrategy.set
FIFO_set(idx, ms, b, em, cl, k, v, ttl, t) ==
    LET l == FIFO_set_locked(idx, ms, b, em, k)
    IN IF l.evict /\ cl
       THEN EvRet(Raise(b, _check_closed(cl), <<>>), l.popped)
       ELSE IF cl THEN EvRet(Raise(b, _check_closed(cl), <<>>), l.index)
       ELSE EvRet(Ret(backend_set(l.backend, em, k, v, ttl, t), NoValue, TRUE,
                      <<>>), l.index)

\* FIFOEvictionStrategy.get
FIFO_get(idx, ms, b, em, cl, k, cb, t) ==
    IF cl THEN EvRet(Raise(b, _check_closed(cl), <<>>), idx)
    ELSE LET g == backend_get(b, em, k, t)
         IN IF g.result = NoValue /\ ~IsNone(cb)
            THEN LET value == The(cb)
                     calls == << <<"miss_callback", k, value>> >>
                     r == FIFO_set(idx, ms, g, em, cl, k, value, None, t)
                 IN IF value # NoValue
                    THEN EvRet(Ret(r, value, FALSE, calls), r.index)
                    ELSE EvRet(Ret(g, value, FALSE, calls), idx)
            ELSE EvRet(Ret(g, g.result, FALSE, <<>>), idx)

\* FIFOEvictionStrategy.delete
FIFO_delete(idx, b, em, cl, k) ==
    IF cl THEN EvRet(Raise(b, _check_closed(cl), <<>>), idx)
    ELSE LET d == backend_delete(b, em, k)
         IN EvRet(Ret(d, NoValue, d.result, <<>>),
                  IF d.result THEN SeqRemove(idx, k) ELSE idx)

\* FIFOEvictionStrategy.clear
FIFO_clear(idx, b, em, cl) ==
    IF cl THEN EvRet(Raise(b, _check_closed(cl), <<>>), <<>>)
    ELSE EvRet(Ret(backend_clear(b, em), NoValue, TRUE, <<>>), <<>>)

----------------------------------------------------------------------------
(* Dispatch on the class of the eviction strategy. *)

IsEviction(s) == s.kind \in {"lru", "lfu", "fifo"}

Index ==
    CASE strategy.kind = "lru" -> access_order
      [] strategy.kind = "lfu" -> access_counts
      [] strategy.kind = "fifo" -> insertion_order

\* The keys of the shadow index.
IndexKeys ==
    CASE strategy.kind = "lru" -> SeqKeys(access_order)
      [] strategy.kind = "lfu" -> CountKeys(access_counts)
      [] strategy.kind = "fifo" -> SeqKeys(insertion_order)

\* The keys of an index idx of the strategy s.
IndexKeysOf(s, idx) ==
    IF s.kind = "lfu" THEN CountKeys(idx) ELSE SeqKeys(idx)

Evict_get(s, idx, b, em, cl, k, cb, t) ==
    CASE s.kind = "lru" -> LRU_get(idx, s.max_size, b, em, cl, k, cb, t)
      [] s.kind = "lfu" -> LFU_get(idx, s.max_size, b, em, cl, k, cb, t)
      [] s.kind = "fifo" -> FIFO_get(idx, s.max_size, b, em, cl, k, cb, t)

\* A set that evicts only when the index holds more than max_size keys.
Evict_set_above_capacity(s, idx, b, em, cl, k, v, ttl, t) ==
    CASE s.kind = "lru" -> LRU_set(idx, s.max_size + 1, b, em, cl, k, v, ttl, t)
      [] s.kind = "lfu" -> LFU_set(idx, s.max_size + 1, b, em, cl, k, v, ttl, t)
      [] s.kind = "fifo" ->
            FIFO_set(idx, s.max_size + 1, b, em, cl, k, v, ttl, t)

Evict_set(s, idx, b, em, cl, k, v, ttl, t) ==
    CASE s.kind = "lru" -> LRU_set(idx, s.max_size, b, em, cl, k, v, ttl, t)
      [] s.kind = "lfu" -> LFU_set(idx, s.max_size, b, em, cl, k, v, ttl, t)
      [] s.kind = "fifo" -> FIFO_set(idx, s.max_size, b, em, cl, k, v, ttl, t)

Evict_delete(s, idx, b, em, cl, k) ==
    CASE s.kind = "lru" -> LRU_delete(idx, b, em, cl, k)
      [] s.kind = "lfu" -> LFU_delete(idx, b, em, cl, k)
      [] s.kind = "fifo" -> FIFO_delete(idx, b, em, cl, k)

Evict_set_locked(s, idx, b, em, k) ==
    CASE s.kind = "lru" -> LRU_set_locked(idx, s.max_size, b, em, k)
      [] s.kind = "lfu" -> LFU_set_locked(idx, s.max_size, b, em, k)
      [] s.kind = "fifo" -> FIFO_set_locked(idx, s.max_size, b, em, k)

\* get, the part under self._lock after a hit (FIFO has none).
Evict_get_locked(s, idx, k) ==
    CASE s.kind = "lru" -> LRU_get_locked(idx, k)
      [] s.kind = "lfu" -> LFU_get_locked(idx, k)
      [] s.kind = "fifo" -> idx

\* delete, the part under self._lock after backend.delete returned True.
Evict_delete_locked(s, idx, k) ==
    CASE s.kind = "lru" -> SeqRemove(idx, k)
      [] s.kind = "lfu" -> CountRemove(idx, k)
      [] s.kind = "fifo" -> SeqRemove(idx, k)

Evict_clear(s, idx, b, em, cl) ==
    CASE s.kind = "lru" -> LRU_clear(idx, b, em, cl)
      [] s.kind = "lfu" -> LFU_clear(idx, b, em, cl)
      [] s.kind = "fifo" -> FIFO_clear(idx, b, em, cl)

----------------------------------------------------------------------------
(* SpecEvict: one thread calls one eviction strategy on one MemoryBackend, *)
(* and also writes the backend directly.                                   *)

EvKeys == {"a", "b", "c"}
EvValues == {"v1"}
EvTTLs == {None, Some(1)}
EvCallbacks == {None, Some("v1"), Some(NoValue)}
\* The keys are alike to the code: one of them is set with a ttl, and one is
\* also written to the backend directly.
EvTTLKeys == {"a"}
EvDirectKeys == {"c"}

EvictionStrategies ==
    [kind : {"lru", "lfu", "fifo"}, max_size : 1..MaxSize]

InitEvict ==
    /\ InitBackend
    /\ InitStrategy
    /\ pc = <<>>
    /\ config = DefaultConfig
    /\ strategy \in EvictionStrategies

\* An LFU count is raised at most to MaxAccess.
CanCount(k) ==
    strategy.kind = "lfu" /\ k \in CountKeys(access_counts)
        => CountOf(access_counts, k) < MaxAccess

\* The strategy's own index becomes idx.
IndexBecomes(idx) ==
    /\ access_order' = IF strategy.kind = "lru" THEN idx ELSE access_order
    /\ access_counts' = IF strategy.kind = "lfu" THEN idx ELSE access_counts
    /\ insertion_order' =
           IF strategy.kind = "fifo" THEN idx ELSE insertion_order

\* The effect of a completed strategy call r.
EvDone(op, key, r) ==
    /\ store' = r.store
    /\ meta' = r.meta
    /\ last' = Call(op, key, r)
    /\ IndexBecomes(r.index)
    /\ UNCHANGED <<enable_metadata, closed, now, config, strategy, expect,
                   wbVars, raVars, pc, ds>>

E_Get(k, cb) ==
    /\ CanRead(Backend, k)
    /\ CanCount(k)
    /\ EvDone("get", k, Evict_get(strategy, Index, Backend, enable_metadata,
                                  closed, k, cb, now))

E_Set(k, v, ttl) ==
    /\ ~IsNone(ttl) => k \in EvTTLKeys
    /\ EvDone("set", k, Evict_set(strategy, Index, Backend, enable_metadata,
                               closed, k, v, ttl, now))

E_Delete(k) ==
    EvDone("delete", k, Evict_delete(strategy, Index, Backend, enable_metadata,
                                     closed, k))

E_Clear ==
    EvDone("clear", "", Evict_clear(strategy, Index, Backend, enable_metadata,
                                    closed))

\* The application writes the backend itself, without a ttl.
E_BackendSet(k, v) ==
    LET r == backend_set(Backend, enable_metadata, k, v, None, now)
    IN /\ ~closed
       /\ store' = r.store
       /\ meta' = r.meta
       /\ last' = Call("backend.set", k, Ret(r, NoValue, r.result, <<>>))
       /\ UNCHANGED <<enable_metadata, closed, now, config, strategy, expect,
                      strategyVars>>

NextEvict ==
    \/ Tick
    \/ \E k \in EvKeys, cb \in EvCallbacks : E_Get(k, cb)
    \/ \E k \in EvKeys, v \in EvValues, ttl \in EvTTLs : E_Set(k, v, ttl)
    \/ \E k \in EvKeys : E_Delete(k)
    \/ E_Clear
    \/ \E k \in EvDirectKeys, v \in EvValues : E_BackendSet(k, v)

SpecEvict == InitEvict /\ [][NextEvict]_vars

----------------------------------------------------------------------------
(* SpecOrder: one thread calls set, get, delete and clear on one eviction  *)
(* strategy and one MemoryBackend that nobody else writes; no entry has a  *)
(* ttl, so none expires.                                                   *)

OrderKeys == {"a", "b", "c", "d"}

NextOrder ==
    \/ \E k \in OrderKeys, cb \in EvCallbacks : E_Get(k, cb)
    \/ \E k \in OrderKeys, v \in EvValues : E_Set(k, v, None)
    \/ \E k \in OrderKeys : E_Delete(k)
    \/ E_Clear

SpecOrder == InitEvict /\ [][NextOrder]_vars

----------------------------------------------------------------------------
(* SpecEvictConc: NumThreads threads call set, get and delete on one       *)
(* eviction strategy and one MemoryBackend, with no CacheManager and no    *)
(* lock around the calls.  The index is read and written under the         *)
(* strategy's self._lock only.  A call of the backend takes no lock of the *)
(* strategy: its _impl runs under MemoryBackend._lock, and the lines of    *)
(* BaseBackend that read and write _metadata after it run under no lock,   *)
(* so that each of them is a step of its own when the backend keeps        *)
(* metadata.  No entry has a ttl, so none expires, and no get passes a     *)
(* miss callback.                                                          *)

NumThreads == 2
Threads == 1..NumThreads
ConcKeys == {"a", "b"}

Idle == [op |-> "idle", key |-> "", value |-> NoValue]
At(t, op, k, v) == [pc EXCEPT ![t] = [op |-> op, key |-> k, value |-> v]]

InitEvictConc ==
    /\ InitBackend
    /\ InitStrategy
    /\ config = DefaultConfig
    /\ strategy \in EvictionStrategies
    /\ pc = [t \in Threads |-> Idle]

ConcFrame ==
    UNCHANGED <<enable_metadata, closed, now, config, strategy, expect,
                wbVars, raVars, ds>>

\* A thread is inside "with self._lock" of the strategy across steps only
\* while the backend.delete of its eviction runs.
StrategyLockFree == \A t \in Threads : pc[t].op # "set_evict"

\* The key that the set of k evicts from the index idx.
VictimOf(idx, k) ==
    LET l == Evict_set_locked(strategy, idx, Backend, enable_metadata, k)
    IN CHOOSE x \in IndexKeysOf(strategy, idx) :
           x \notin IndexKeysOf(strategy, l.index)

\* set, "with self._lock": without an eviction the lines under the lock; with
\* one, up to the _delete_impl of the eviction's backend.delete (FIFO has
\* popped the victim from its queue by then, LRU and LFU drop it from the
\* index afterwards), and the rest of the lines under the lock when that
\* leaves no _delete_metadata to do.
\* The backend.delete of a closed backend raises, which ends the call.
T_SetLocked(t, k, v) ==
    LET l == Evict_set_locked(strategy, Index, Backend, enable_metadata, k)
        inside == /\ l.evict
                  /\ enable_metadata
                  /\ VictimOf(Index, k) \in DOMAIN store
        thrown == l.evict /\ closed
    IN /\ pc[t] = Idle
       /\ StrategyLockFree
       /\ store' = IF thrown THEN store ELSE l.backend.store
       /\ meta' = IF inside \/ thrown THEN meta ELSE l.backend.meta
       /\ IndexBecomes(IF thrown \/ inside THEN l.popped ELSE l.index)
       /\ pc' = IF thrown THEN pc
                ELSE IF inside
                THEN [pc EXCEPT ![t] = [op |-> "set_evict", key |-> k,
                                        value |-> v,
                                        victim |-> VictimOf(Index, k)]]
                ELSE At(t, "set", k, v)
       /\ last' = IF thrown
                  THEN Call("set", k, Raise(Backend, _check_closed(closed),
                                           <<>>))
                  ELSE last
       /\ ConcFrame

\* set, the eviction's backend.delete from _delete_metadata on, and the rest
\* of the lines under self._lock.
T_SetEvicted(t) ==
    LET before == IF strategy.kind = "fifo"
                  THEN <<pc[t].victim>> \o Index ELSE Index
        l == Evict_set_locked(strategy, before, Backend, enable_metadata,
                              pc[t].key)
    IN /\ pc[t].op = "set_evict"
       /\ meta' = _delete_metadata(Backend, enable_metadata, pc[t].victim)
       /\ IndexBecomes(l.index)
       /\ pc' = At(t, "set", pc[t].key, pc[t].value)
       /\ UNCHANGED <<store, last>>
       /\ ConcFrame

\* set, "return backend.set(key, value, ttl)": _set_impl, and the return
\* when the backend keeps no metadata.
T_SetBackend(t) ==
    /\ pc[t].op = "set"
    /\ store' = IF closed THEN store ELSE Put(store, pc[t].key, pc[t].value)
    /\ pc' = IF enable_metadata /\ ~closed
             THEN At(t, "set_meta", pc[t].key, pc[t].value)
             ELSE [pc EXCEPT ![t] = Idle]
    /\ last' = IF closed
               THEN Call("set", pc[t].key,
                         Raise(Backend, _check_closed(closed), <<>>))
               ELSE IF enable_metadata THEN last
               ELSE Call("set", pc[t].key, Ret(Backend, NoValue, TRUE, <<>>))
    /\ UNCHANGED <<meta, evictVars>>
    /\ ConcFrame

\* _set_metadata, "if key in self._metadata".
T_SetMetadataTest(t) ==
    /\ pc[t].op = "set_meta"
    /\ pc' = At(t, IF pc[t].key \in DOMAIN meta
                   THEN "set_meta_found" ELSE "set_meta_new",
                pc[t].key, pc[t].value)
    /\ UNCHANGED <<store, meta, last, evictVars>>
    /\ ConcFrame

\* _set_metadata, the branch taken: "metadata = self._metadata[key]", which
\* raises KeyError when the record has gone since the test, and the new
\* expires_at; or a new record in the place of whatever is there.
T_SetMetadata(t) ==
    LET k == pc[t].key
        gone == pc[t].op = "set_meta_found" /\ k \notin DOMAIN meta
    IN /\ pc[t].op \in {"set_meta_found", "set_meta_new"}
       /\ meta' = IF gone THEN meta
                  ELSE IF pc[t].op = "set_meta_found"
                  THEN [meta EXCEPT ![k].expires_at = None]
                  ELSE Put(meta, k, NewMetadata(None, now))
       /\ pc' = [pc EXCEPT ![t] = Idle]
       /\ last' = Call("set", k,
                       IF gone THEN Raise(Backend, "KeyError", <<>>)
                       ELSE Ret(Backend, NoValue, TRUE, <<>>))
       /\ UNCHANGED <<store, evictVars>>
       /\ ConcFrame

\* What get does after backend.get returned value: a miss returns, and so
\* does FIFO's hit; a hit of LRU and LFU goes on to "with self._lock".
AfterBackendGet(t, k, value) ==
    LET hit == value # NoValue /\ strategy.kind # "fifo"
    IN /\ pc' = IF hit THEN At(t, "get", k, value)
                ELSE [pc EXCEPT ![t] = Idle]
       /\ last' = IF hit THEN last
                  ELSE Call("get", k, Ret(Backend, value, FALSE, <<>>))

\* get, "value = backend.get(key)": _is_expired, which finds no expiry, and
\* _get_impl; the return of backend.get when there is no record to update.
T_GetBackend(t, k) ==
    LET value == _get_impl(Backend, k)
    IN /\ pc[t] = Idle
       /\ CanRead(Backend, k)
       /\ CanCount(k)
       /\ ~_is_expired(Backend, enable_metadata, k, now)
       /\ IF closed
          THEN /\ pc' = pc
               /\ last' = Call("get", k, Raise(Backend, _check_closed(closed),
                                               <<>>))
          ELSE IF value # NoValue /\ enable_metadata
          THEN pc' = At(t, "get_meta", k, value) /\ last' = last
          ELSE AfterBackendGet(t, k, value)
       /\ UNCHANGED <<store, meta, evictVars>>
       /\ ConcFrame

\* _update_access_metadata, "if self.enable_metadata and key in
\* self._metadata".
T_GetMetadataTest(t) ==
    /\ pc[t].op = "get_meta"
    /\ IF pc[t].key \in DOMAIN meta
       THEN /\ pc' = At(t, "get_meta_found", pc[t].key, pc[t].value)
            /\ last' = last
       ELSE AfterBackendGet(t, pc[t].key, pc[t].value)
    /\ UNCHANGED <<store, meta, evictVars>>
    /\ ConcFrame

\* _update_access_metadata, "self._metadata[key].update_access()", which
\* raises KeyError when the record has gone since the test.
T_GetMetadata(t) ==
    LET k == pc[t].key
    IN /\ pc[t].op = "get_meta_found"
       /\ IF k \in DOMAIN meta
          THEN /\ meta' = [meta EXCEPT ![k] = update_access(@, now)]
               /\ AfterBackendGet(t, k, pc[t].value)
          ELSE /\ meta' = meta
               /\ pc' = [pc EXCEPT ![t] = Idle]
               /\ last' = Call("get", k, Raise(Backend, "KeyError", <<>>))
       /\ UNCHANGED <<store, evictVars>>
       /\ ConcFrame

\* get, lines under "with self._lock" after a hit.
T_GetLocked(t) ==
    /\ pc[t].op = "get"
    /\ StrategyLockFree
    /\ IndexBecomes(Evict_get_locked(strategy, Index, pc[t].key))
    /\ pc' = [pc EXCEPT ![t] = Idle]
    /\ last' = Call("get", pc[t].key,
                    Ret(Backend, pc[t].value, FALSE, <<>>))
    /\ UNCHANGED <<store, meta>>
    /\ ConcFrame

\* delete, "result = backend.delete(key)": _delete_impl; False returns, and
\* True goes on to _delete_metadata or, without metadata, to the lock.
T_DeleteBackend(t, k) ==
    LET result == ~closed /\ k \in DOMAIN store
    IN /\ pc[t] = Idle
       /\ store' = IF closed THEN store ELSE Drop(store, k)
       /\ pc' = IF result
                THEN At(t, IF enable_metadata THEN "delete_meta"
                           ELSE "delete", k, NoValue)
                ELSE pc
       /\ last' = IF closed
                  THEN Call("delete", k,
                            Raise(Backend, _check_closed(closed), <<>>))
                  ELSE IF result THEN last
                  ELSE Call("delete", k, Ret(Backend, NoValue, FALSE, <<>>))
       /\ UNCHANGED <<meta, evictVars>>
       /\ ConcFrame

\* _delete_metadata, "self._metadata.pop(key, None)".
T_DeleteMetadata(t) ==
    /\ pc[t].op = "delete_meta"
    /\ meta' = _delete_metadata(Backend, enable_metadata, pc[t].key)
    /\ pc' = At(t, "delete", pc[t].key, NoValue)
    /\ UNCHANGED <<store, last, evictVars>>
    /\ ConcFrame

\* delete, lines under "with self._lock" after backend.delete gave True.
T_DeleteLocked(t) ==
    /\ pc[t].op = "delete"
    /\ StrategyLockFree
    /\ IndexBecomes(Evict_delete_locked(strategy, Index, pc[t].key))
    /\ pc' = [pc EXCEPT ![t] = Idle]
    /\ last' = Call("delete", pc[t].key, Ret(Backend, NoValue, TRUE, <<>>))
    /\ UNCHANGED <<store, meta>>
    /\ ConcFrame

NextEvictConc ==
    \/ \E t \in Threads, k \in ConcKeys, v \in EvValues : T_SetLocked(t, k, v)
    \/ \E t \in Threads : T_SetEvicted(t)
    \/ \E t \in Threads : T_SetBackend(t)
    \/ \E t \in Threads : T_SetMetadataTest(t)
    \/ \E t \in Threads : T_SetMetadata(t)
    \/ \E t \in Threads, k \in ConcKeys : T_GetBackend(t, k)
    \/ \E t \in Threads : T_GetMetadataTest(t)
    \/ \E t \in Threads : T_GetMetadata(t)
    \/ \E t \in Threads : T_GetLocked(t)
    \/ \E t \in Threads, k \in ConcKeys : T_DeleteBackend(t, k)
    \/ \E t \in Threads : T_DeleteMetadata(t)
    \/ \E t \in Threads : T_DeleteLocked(t)

SpecEvictConc == InitEvictConc /\ [][NextEvictConc]_vars

----------------------------------------------------------------------------
(* WriteBackStrategy (strategies/write_back.py).  The queue q is the dict  *)
(* _write_queue as the sequence of its items, [key, value], in the order   *)
(* the dict iterates them.  d is the data store behind write_callback, and *)
(* fails is the set of keys for which write_callback raises an Exception   *)
(* during this call.  A callback invocation is recorded in calls as        *)
(* <<"write_callback", key, value, outcome>>.                              *)

QueueKeys(q) == {q[i].key : i \in 1..Len(q)}
QueueItems(q) == {q[i] : i \in 1..Len(q)}

\* self._write_queue[key] = value
QueuePut(q, k, v) ==
    IF k \in QueueKeys(q)
    THEN [i \in 1..Len(q) |->
            IF q[i].key = k THEN [key |-> k, value |-> v] ELSE q[i]]
    ELSE Append(q, [key |-> k, value |-> v])

\* The data store after the callbacks of q that did not raise.
Written(d, q, fails) ==
    LET ok == SelectSeq(q, LAMBDA e : e.key \notin fails)
    IN [k \in DOMAIN d \cup QueueKeys(ok) |->
           IF k \in QueueKeys(ok)
           THEN (CHOOSE e \in QueueItems(ok) : e.key = k).value
           ELSE d[k]]

WriteCalls(q, fails) ==
    [i \in 1..Len(q) |->
        <<"write_callback", q[i].key, q[i].value,
          IF q[i].key \in fails THEN "raised" ELSE "ok">>]

WBState(q, lf, d, calls) ==
    [queue |-> q, last_flush |-> lf, ds |-> d, calls |-> calls]

\* A _flush that forgets the entries whose callback raised.
_flush_drops_failed(q, lf, d, t, fails) ==
    IF q = <<>> THEN WBState(q, lf, d, <<>>)
    ELSE WBState(<<>>, t, Written(d, q, fails), WriteCalls(q, fails))

\* A _flush that gives up at the first entry whose callback raises and
\* puts it and the entries after it back into the queue.
_flush_stops_at_failure(q, lf, d, t, fails) ==
    LET bad == {i \in 1..Len(q) : q[i].key \in fails}
        n == IF bad = {} THEN Len(q)
             ELSE CHOOSE i \in bad : \A j \in bad : i <= j
        done == SubSeq(q, 1, n)
    IN IF q = <<>> THEN WBState(q, lf, d, <<>>)
       ELSE WBState(IF bad = {} THEN <<>> ELSE SubSeq(q, n, Len(q)), t,
                    Written(d, done, fails), WriteCalls(done, fails))

\* WriteBackStrategy._flush
_flush(q, lf, d, t, fails) ==
    IF q = <<>> THEN WBState(q, lf, d, <<>>)
    ELSE WBState(SelectSeq(q, LAMBDA e : e.key \in fails), t,
                 Written(d, q, fails), WriteCalls(q, fails))

\* A _maybe_flush that looks at the queue length only.
_maybe_flush_batch_only(s, q, lf, d, t, fails) ==
    IF Len(q) >= s.batch_size /\ s.has_callback
    THEN _flush(q, lf, d, t, fails)
    ELSE WBState(q, lf, d, <<>>)

\* WriteBackStrategy._maybe_flush
_maybe_flush(s, q, lf, d, t, fails) ==
    LET should_flush ==
            Len(q) >= s.batch_size \/ (t - lf) >= s.flush_interval
    IN IF should_flush /\ s.has_callback THEN _flush(q, lf, d, t, fails)
       ELSE WBState(q, lf, d, <<>>)

WBRet(r, w) ==
    [store |-> r.store, meta |-> r.meta, value |-> r.value, ok |-> r.ok,
     raised |-> r.raised, calls |-> r.calls \o w.calls, queue |-> w.queue,
     last_flush |-> w.last_flush, ds |-> w.ds]

\* A set that queues the write and leaves the cache as it is.
WB_set_skips_cache(s, q, lf, d, b, em, cl, k, v, ttl, t, fails) ==
    IF cl THEN WBRet(Raise(b, _check_closed(cl), <<>>), WBState(q, lf, d, <<>>))
    ELSE WBRet(Ret(b, NoValue, TRUE, <<>>),
               IF s.has_callback
               THEN _maybe_flush(s, QueuePut(q, k, v), lf, d, t, fails)
               ELSE WBState(q, lf, d, <<>>))

\* A set that leaves a value that is already pending for the key in the queue.
WB_set_keeps_pending(s, q, lf, d, b, em, cl, k, v, ttl, t, fails) ==
    IF cl THEN WBRet(Raise(b, _check_closed(cl), <<>>), WBState(q, lf, d, <<>>))
    ELSE LET r == backend_set(b, em, k, v, ttl, t)
         IN WBRet(Ret(r, NoValue, r.result, <<>>),
                  IF s.has_callback /\ r.result
                  THEN _maybe_flush(s, IF k \in QueueKeys(q) THEN q
                                       ELSE QueuePut(q, k, v),
                                    lf, d, t, fails)
                  ELSE WBState(q, lf, d, <<>>))

\* WriteBackStrategy.set
WB_set(s, q, lf, d, b, em, cl, k, v, ttl, t, fails) ==
    IF cl THEN WBRet(Raise(b, _check_closed(cl), <<>>), WBState(q, lf, d, <<>>))
    ELSE LET r == backend_set(b, em, k, v, ttl, t)
         IN WBRet(Ret(r, NoValue, r.result, <<>>),
                  IF s.has_callback /\ r.result
                  THEN _maybe_flush(s, QueuePut(q, k, v), lf, d, t, fails)
                  ELSE WBState(q, lf, d, <<>>))

\* BaseStrategy.get (strategies/base.py), with self.set the write-back set
WB_get(s, q, lf, d, b, em, cl, k, cb, t, fails) ==
    IF cl THEN WBRet(Raise(b, _check_closed(cl), <<>>), WBState(q, lf, d, <<>>))
    ELSE LET g == backend_get(b, em, k, t)
         IN IF g.result = NoValue /\ ~IsNone(cb)
            THEN LET value == The(cb)
                     calls == << <<"miss_callback", k, value>> >>
                     w == WB_set(s, q, lf, d, g, em, cl, k, value, None, t,
                                 fails)
                 IN IF value # NoValue
                    THEN WBRet(Ret(w, value, FALSE, calls), w)
                    ELSE WBRet(Ret(g, value, FALSE, calls),
                               WBState(q, lf, d, <<>>))
            ELSE WBRet(Ret(g, g.result, FALSE, <<>>), WBState(q, lf, d, <<>>))

\* A delete that also takes the key out of the queue.
WB_delete_forgets_pending(q, lf, d, b, em, cl, k) ==
    IF cl THEN WBRet(Raise(b, _check_closed(cl), <<>>), WBState(q, lf, d, <<>>))
    ELSE LET r == backend_delete(b, em, k)
         IN WBRet(Ret(r, NoValue, r.result, <<>>),
                  WBState(SelectSeq(q, LAMBDA e : e.key # k), lf, d, <<>>))

\* WriteBackStrategy.delete, which is BaseStrategy.delete
\* (strategies/base.py): the queue is not looked at.
WB_delete(q, lf, d, b, em, cl, k) ==
    WBRet(Base_delete(b, em, cl, k), WBState(q, lf, d, <<>>))

\* WriteBackStrategy.flush
WB_flush(q, lf, d, b, t, fails) ==
    WBRet(Ret(b, NoValue, FALSE, <<>>), _flush(q, lf, d, t, fails))

\* A clear that empties the backend and leaves the queue as it is.
WB_clear_without_flush(q, lf, d, b, em, cl, t, fails) ==
    LET w == WBState(q, lf, d, <<>>)
    IN IF cl THEN WBRet(Raise(b, _check_closed(cl), <<>>), w)
       ELSE WBRet(Ret(backend_clear(b, em), NoValue, TRUE, <<>>), w)

\* A clear that empties the backend before it flushes.
WB_clear_backend_first(q, lf, d, b, em, cl, t, fails) ==
    IF cl THEN WBRet(Raise(b, _check_closed(cl), <<>>), WBState(q, lf, d, <<>>))
    ELSE WBRet(Ret(backend_clear(b, em), NoValue, TRUE, <<>>),
               _flush(q, lf, d, t, fails))

\* WriteBackStrategy.clear
WB_clear(q, lf, d, b, em, cl, t, fails) ==
    LET w == _flush(q, lf, d, t, fails)
    IN IF cl THEN WBRet(Raise(b, _check_closed(cl), <<>>), w)
       ELSE WBRet(Ret(backend_clear(b, em), NoValue, TRUE, <<>>), w)

----------------------------------------------------------------------------
(* SpecWB: one thread calls one WriteBackStrategy on one MemoryBackend.    *)

MaxBatch == 2
WBKeys == {"a", "b"}
WBValues == {"v1", "v2"}
WBCallbacks == {None, Some("v1")}
WBIntervals == {1, 2}

\* Without a callback nothing is queued and the two settings are not read.
WriteBackStrategies ==
    [kind : {"write_back"}, has_callback : {TRUE},
     batch_size : 1..MaxBatch, flush_interval : WBIntervals]
    \cup [kind : {"write_back"}, has_callback : {FALSE},
          batch_size : {MaxBatch}, flush_interval : {MaxBatch}]

\* The backend is a MemoryBackend(enable_metadata=False): no set of this
\* specification gives a ttl, and without records a get hit leaves the
\* backend as it is.
InitWB ==
    /\ InitBackend
    /\ enable_metadata = FALSE
    /\ InitStrategy
    /\ pc = <<>>
    /\ config = DefaultConfig
    /\ strategy \in WriteBackStrategies

\* The effect of a completed write-back call r.
WBDone(op, key, r) ==
    /\ store' = r.store
    /\ meta' = r.meta
    /\ _write_queue' = r.queue
    /\ _last_flush' = r.last_flush
    /\ ds' = r.ds
    /\ last' = Call(op, key, r)
    /\ UNCHANGED <<enable_metadata, closed, now, config, strategy, expect,
                   evictVars, raVars, pc>>

W_Set(k, v) ==
    \E fails \in SUBSET (QueueKeys(_write_queue) \cup {k}) :
        WBDone("set", k, WB_set(strategy, _write_queue, _last_flush, ds,
                                Backend, enable_metadata, closed, k, v, None,
                                now, fails))

\* get: a hit returns the value (the backend keeps no access metadata to
\* update), a miss with a callback calls set.
W_Get(k, cb) ==
    \E fails \in SUBSET (QueueKeys(_write_queue) \cup {k}) :
          WBDone("get", k, WB_get(strategy, _write_queue, _last_flush, ds,
                                 Backend, enable_metadata, closed, k, cb, now,
                                 fails))

W_Delete(k) ==
    WBDone("delete", k, WB_delete(_write_queue, _last_flush, ds, Backend,
                                  enable_metadata, closed, k))

W_Flush ==
    \E fails \in SUBSET QueueKeys(_write_queue) :
        WBDone("flush", "", WB_flush(_write_queue, _last_flush, ds, Backend,
                                     now, fails))

W_Clear ==
    \E fails \in SUBSET QueueKeys(_write_queue) :
        WBDone("clear", "", WB_clear(_write_queue, _last_flush, ds, Backend,
                                     enable_metadata, closed, now, fails))

NextWB ==
    \/ Tick
    \/ \E k \in WBKeys, v \in WBValues : W_Set(k, v)
    \/ \E k \in WBKeys, cb \in WBCallbacks : W_Get(k, cb)
    \/ \E k \in WBKeys : W_Delete(k)
    \/ W_Flush
    \/ W_Clear

SpecWB == InitWB /\ [][NextWB]_vars

\* Time passes whatever the application does; nothing else is scheduled,
\* since the class starts no thread.
SpecWBFair == SpecWB /\ WF_vars(Tick)

----------------------------------------------------------------------------
(* WriteThroughStrategy (strategies/write_through.py).  d is the data      *)
(* store behind write_callback; has_callback says whether one is           *)
(* configured and fail whether it raises an Exception in this call.        *)

WTRet(r, d) ==
    [store |-> r.store, meta |-> r.meta, value |-> r.value, ok |-> r.ok,
     raised |-> r.raised, calls |-> r.calls, ds |-> d]

\* A set that writes the cache before it calls the write callback.
WT_set_cache_first(s, d, b, em, cl, k, v, ttl, t, fail) ==
    IF cl THEN WTRet(Raise(b, _check_closed(cl), <<>>), d)
    ELSE LET r == backend_set(b, em, k, v, ttl, t)
         IN IF s.has_callback /\ fail
            THEN WTRet(Raise(r, "RuntimeError",
                             << <<"write_callback", k, v, "raised">> >>), d)
            ELSE IF s.has_callback
            THEN WTRet(Ret(r, NoValue, r.result,
                           << <<"write_callback", k, v, "ok">> >>),
                       Put(d, k, v))
            ELSE WTRet(Ret(r, NoValue, r.result, <<>>), d)

\* WriteThroughStrategy.set
WT_set(s, d, b, em, cl, k, v, ttl, t, fail) ==
    IF s.has_callback /\ fail
    THEN WTRet(Raise(b, "RuntimeError",
                     << <<"write_callback", k, v, "raised">> >>), d)
    ELSE LET calls == IF s.has_callback
                      THEN << <<"write_callback", k, v, "ok">> >>
                      ELSE <<>>
             d1 == IF s.has_callback THEN Put(d, k, v) ELSE d
         IN IF cl THEN WTRet(Raise(b, _check_closed(cl), calls), d1)
            ELSE LET r == backend_set(b, em, k, v, ttl, t)
                 IN WTRet(Ret(r, NoValue, r.result, calls), d1)

\* BaseStrategy.get (strategies/base.py), with self.set the write-through set
WT_get(s, d, b, em, cl, k, cb, t, fail) ==
    IF cl THEN WTRet(Raise(b, _check_closed(cl), <<>>), d)
    ELSE LET g == backend_get(b, em, k, t)
         IN IF g.result = NoValue /\ ~IsNone(cb)
            THEN LET value == The(cb)
                     calls == << <<"miss_callback", k, value>> >>
                     w == WT_set(s, d, g, em, cl, k, value, None, t, fail)
                 IN IF value = NoValue
                    THEN WTRet(Ret(g, value, FALSE, calls), d)
                    ELSE IF w.raised # ""
                    THEN WTRet(Raise(w, w.raised, calls \o w.calls), w.ds)
                    ELSE WTRet(Ret(w, value, FALSE, calls \o w.calls), w.ds)
            ELSE WTRet(Ret(g, g.result, FALSE, <<>>), d)

----------------------------------------------------------------------------
(* SpecWT: one thread calls one WriteThroughStrategy on one MemoryBackend, *)
(* which the application may close.                                        *)

WTKeys == {"a", "b"}
WTValues == {"v1", "v2"}
WTTTLs == {None, Some(1)}
WTCallbacks == {None, Some("v1")}

WriteThroughStrategies == [kind : {"write_through"}, has_callback : BOOLEAN]

InitWT ==
    /\ InitBackend
    /\ InitStrategy
    /\ pc = <<>>
    /\ config = DefaultConfig
    /\ strategy \in WriteThroughStrategies

\* The effect of a completed write-through call r.
WTDone(op, key, r) ==
    /\ store' = r.store
    /\ meta' = r.meta
    /\ ds' = r.ds
    /\ last' = Call(op, key, r)
    /\ UNCHANGED <<enable_metadata, closed, now, config, strategy, expect,
                   evictVars, wbVars, raVars, pc>>

T_Set(k, v, ttl, fail) ==
    WTDone("set", k, WT_set(strategy, ds, Backend, enable_metadata, closed,
                            k, v, ttl, now, fail))

T_Get(k, cb, fail) ==
    /\ CanRead(Backend, k)
    /\ WTDone("get", k, WT_get(strategy, ds, Backend, enable_metadata, closed,
                               k, cb, now, fail))

T_Delete(k) ==
    WTDone("delete", k,
           WTRet(Base_delete(Backend, enable_metadata, closed, k), ds))

T_Clear ==
    WTDone("clear", "", WTRet(Base_clear(Backend, enable_metadata, closed), ds))

\* BaseBackend.close
T_Close ==
    /\ closed' = TRUE
    /\ meta' = _clear_metadata(Backend, enable_metadata)
    /\ last' = [NoCall EXCEPT !.op = "close"]
    /\ UNCHANGED <<store, enable_metadata, now, config, strategy, expect,
                   strategyVars>>

NextWT ==
    \/ Tick
    \/ \E k \in WTKeys, v \in WTValues, ttl \in WTTTLs, fail \in BOOLEAN :
          T_Set(k, v, ttl, fail)
    \/ \E k \in WTKeys, cb \in WTCallbacks, fail \in BOOLEAN : T_Get(k, cb, fail)
    \/ \E k \in WTKeys : T_Delete(k)
    \/ T_Clear
    \/ T_Close

SpecWT == InitWT /\ [][NextWT]_vars

----------------------------------------------------------------------------
(* RefreshAheadStrategy (strategies/refresh_ahead.py).  rt is the dict     *)
(* _refresh_times as the sequence of its items, [key, value], value being  *)
(* the time recorded, in the order the dict iterates them.                 *)

RefreshAfter == 1

\* time_since_refresh > 1.0, with last_refresh = self._refresh_times.get(key,
\* 0): for a key that is not tracked the time since the epoch counts, which
\* is more than a second.
NeedsRefresh(rt, k, t) ==
    k \in QueueKeys(rt) =>
        t - (CHOOSE e \in QueueItems(rt) : e.key = k).value > RefreshAfter

RARet(r, rt, start) ==
    [store |-> r.store, meta |-> r.meta, value |-> r.value, ok |-> r.ok,
     raised |-> r.raised, calls |-> r.calls, refresh_times |-> rt,
     start |-> start]

\* RefreshAheadStrategy._refresh_expiring_keys, the body of the loop for one
\* key; rv is what refresh_callback returns for it.
RA_refresh_key(rt, b, em, cl, k, rv, t) ==
    IF cl THEN RARet(Ret(b, NoValue, FALSE, <<>>), rt, FALSE)
    ELSE LET x == backend_exists(b, em, k, t)
             calls == << <<"refresh_callback", k, rv>> >>
         IN IF ~x.result THEN RARet(Ret(x, NoValue, FALSE, <<>>), rt, FALSE)
            ELSE IF rv = NoValue
            THEN RARet(Ret(x, NoValue, FALSE, calls), rt, FALSE)
            ELSE RARet(Ret(backend_set(x, em, k, rv, None, t), NoValue, TRUE,
                           calls),
                       QueuePut(rt, k, t), FALSE)

----------------------------------------------------------------------------
(* SpecRA: one application thread calls one RefreshAheadStrategy on one    *)
(* MemoryBackend(enable_metadata=False) while the refresh threads it       *)
(* started run.  A call of the backend is one step (its _impl runs under   *)
(* MemoryBackend._lock and there is no metadata to read or write after     *)
(* it); so is each block under the strategy's self._lock.  pc is where the *)
(* application thread is, with the key and the value of the call it is in: *)
(* <<"idle">> between calls, "schedule" before _schedule_refresh,          *)
(* "populate" before the backend.set of a miss, "stamp_get" and            *)
(* "stamp_set" before the assignment to _refresh_times, "untrack" before   *)
(* the pop of delete, "joining" inside clear after "_running = False",     *)
(* "emptying" between the return of join(timeout=1.0) and                  *)
(* _refresh_times.clear(), "clearing" between _refresh_times.clear() and   *)
(* backend.clear().  A worker is at "check" (the test of "while            *)
(* self._running"), in "sleep" (time.sleep(0.5)), in "refresh" at          *)
(* backend.exists of the next key it listed (keys being those still to     *)
(* do), in "callback" inside refresh_callback, in "set" at backend.set, in *)
(* "stamp" at the assignment to _refresh_times (value being what the       *)
(* callback returned), or "ended".  _refresh_thread is the last thread     *)
(* started.                                                                *)

MaxWorkers == 2
\* SpecRA explores two keys with one refresh thread; SpecStop explores one key
\* with up to MaxWorkers threads.
RAWorkers == 1
MaxClock == 2
RAKeys == {"a", "b"}
RAValues == {"v1"}
RACallbacks == {None, Some("v1")}
RefreshValues == {"v2", NoValue}

RefreshAheadStrategies == [kind : {"refresh_ahead"}, has_refresh : BOOLEAN]

WorkerIds == 1..MaxWorkers
Worker(at, keys) == [at |-> at, keys |-> keys]
Alive == {i \in 1..Len(workers) : workers[i].at # "ended"}

InitRA ==
    /\ InitBackend
    /\ InitStrategy
    /\ enable_metadata = FALSE
    /\ pc = <<"idle">>
    /\ config = DefaultConfig
    /\ strategy \in RefreshAheadStrategies

RAFrame ==
    UNCHANGED <<enable_metadata, closed, config, strategy, expect, evictVars,
                wbVars, ds>>

\* The application waits just longer than the refresh threshold.
Wait == RefreshAfter + 1

R_Tick ==
    /\ now + Wait <= MaxClock
    /\ now' = now + Wait
    /\ last' = TickCall
    /\ UNCHANGED <<store, meta, raVars, pc>>
    /\ RAFrame

\* get, "value = backend.get(key)", and on a miss miss_callback(key); the
\* call returns here when neither _schedule_refresh nor backend.set follows.
R_Get(k, cb) ==
    LET g == backend_get(Backend, enable_metadata, k, now)
        hit == g.result # NoValue
        called == ~hit /\ ~IsNone(cb)
        value == IF called THEN The(cb) ELSE g.result
        calls == IF called THEN << <<"miss_callback", k, value>> >> ELSE <<>>
        next == IF hit /\ strategy.has_refresh THEN <<"schedule", k, value>>
                ELSE IF called /\ value # NoValue
                THEN <<"populate", k, value>>
                ELSE <<"idle">>
    IN /\ pc = <<"idle">>
       /\ CanRead(Backend, k)
       /\ store' = IF closed THEN store ELSE g.store
       /\ meta' = IF closed THEN meta ELSE g.meta
       /\ pc' = IF closed THEN <<"idle">> ELSE next
       /\ last' = IF closed
                  THEN Call("get", k, Raise(Backend, _check_closed(closed),
                                           <<>>))
                  ELSE IF next = <<"idle">>
                  THEN Call("get", k, Ret(g, value, FALSE, calls))
                  ELSE last
       /\ UNCHANGED <<now, raVars>>
       /\ RAFrame

\* get, _schedule_refresh: under self._lock, _start_refresh_thread starts a
\* thread when the key is due and _running is false; get returns the value.
\* At most mw threads are started.
R_GetSchedule(mw) ==
    LET k == pc[2]
        start == NeedsRefresh(_refresh_times, k, now) /\ ~_running
    IN /\ pc[1] = "schedule"
       /\ start => Len(workers) < mw
       /\ _running' = (_running \/ start)
       /\ workers' = IF start THEN Append(workers, Worker("check", <<>>))
                     ELSE workers
       /\ pc' = <<"idle">>
       /\ last' = Call("get", k, Ret(Backend, pc[3], FALSE, <<>>))
       /\ UNCHANGED <<store, meta, now, _refresh_times>>
       /\ RAFrame

\* get, "backend.set(key, value)" after the miss callback returned a value.
R_GetSet ==
    LET r == Base_set(Backend, enable_metadata, closed, pc[2], pc[3], None,
                      now)
        calls == << <<"miss_callback", pc[2], pc[3]>> >>
    IN /\ pc[1] = "populate"
       /\ store' = r.store
       /\ meta' = r.meta
       /\ pc' = IF r.raised = "" THEN <<"stamp_get", pc[2], pc[3]>>
                ELSE <<"idle">>
       /\ last' = IF r.raised = "" THEN last
                  ELSE Call("get", pc[2], Raise(Backend, r.raised, calls))
       /\ UNCHANGED <<now, raVars>>
       /\ RAFrame

\* get, "self._refresh_times[key] = time.time()" under self._lock, and the
\* return of the callback's value.
R_GetStamp ==
    /\ pc[1] = "stamp_get"
    /\ _refresh_times' = QueuePut(_refresh_times, pc[2], now)
    /\ pc' = <<"idle">>
    /\ last' = Call("get", pc[2],
                    Ret(Backend, pc[3], FALSE,
                        << <<"miss_callback", pc[2], pc[3]>> >>))
    /\ UNCHANGED <<store, meta, now, _running, workers>>
    /\ RAFrame

\* set, "result = backend.set(key, value, ttl)", which gives True.
R_Set(k, v) ==
    LET r == Base_set(Backend, enable_metadata, closed, k, v, None, now)
    IN /\ pc = <<"idle">>
       /\ store' = r.store
       /\ meta' = r.meta
       /\ pc' = IF r.raised = "" THEN <<"stamp_set", k, v>> ELSE <<"idle">>
       /\ last' = IF r.raised = "" THEN last ELSE Call("set", k, r)
       /\ UNCHANGED <<now, raVars>>
       /\ RAFrame

\* set, "self._refresh_times[key] = time.time()" under self._lock, and the
\* return.
R_SetStamp ==
    /\ pc[1] = "stamp_set"
    /\ _refresh_times' = QueuePut(_refresh_times, pc[2], now)
    /\ pc' = <<"idle">>
    /\ last' = Call("set", pc[2], Ret(Backend, NoValue, TRUE, <<>>))
    /\ UNCHANGED <<store, meta, now, _running, workers>>
    /\ RAFrame

\* delete, "result = backend.delete(key)"; False returns.
R_Delete(k) ==
    LET d == Base_delete(Backend, enable_metadata, closed, k)
    IN /\ pc = <<"idle">>
       /\ store' = d.store
       /\ meta' = d.meta
       /\ pc' = IF d.ok THEN <<"untrack", k, NoValue>> ELSE <<"idle">>
       /\ last' = IF d.ok THEN last ELSE Call("delete", k, d)
       /\ UNCHANGED <<now, raVars>>
       /\ RAFrame

\* delete, "self._refresh_times.pop(key, None)" under self._lock, and the
\* return.
R_DeleteUntrack ==
    /\ pc[1] = "untrack"
    /\ _refresh_times' = SelectSeq(_refresh_times, LAMBDA e : e.key # pc[2])
    /\ pc' = <<"idle">>
    /\ last' = Call("delete", pc[2], Ret(Backend, NoValue, TRUE, <<>>))
    /\ UNCHANGED <<store, meta, now, _running, workers>>
    /\ RAFrame

\* clear, _stop_refresh_thread: "self._running = False".
R_ClearStop ==
    /\ pc = <<"idle">>
    /\ _running' = FALSE
    /\ pc' = <<"joining">>
    /\ UNCHANGED <<store, meta, now, last, _refresh_times, workers>>
    /\ RAFrame

\* clear, _stop_refresh_thread: "self._refresh_thread.join(timeout=1.0)"
\* returns, when the thread has ended or when the second is over, wherever
\* the thread is then; without a thread there is no join.
R_ClearJoin ==
    /\ pc[1] = "joining"
    /\ pc' = <<"emptying">>
    /\ UNCHANGED <<store, meta, now, last, raVars>>
    /\ RAFrame

\* clear: _refresh_times.clear() under self._lock.
S_ClearTimes ==
    /\ pc[1] = "emptying"
    /\ _refresh_times' = <<>>
    /\ pc' = <<"clearing">>
    /\ UNCHANGED <<store, meta, now, last, _running, workers>>
    /\ RAFrame

\* clear: return backend.clear().
S_ClearBackend ==
    LET r == Base_clear(Backend, enable_metadata, closed)
    IN /\ pc[1] = "clearing"
       /\ store' = r.store
       /\ meta' = r.meta
       /\ pc' = <<"idle">>
       /\ last' = Call("clear", "", r)
       /\ UNCHANGED <<now, _running, _refresh_times, workers>>
       /\ RAFrame

\* refresh_worker: the test of "while self._running".
W_Check(i) ==
    /\ i <= Len(workers)
    /\ workers[i].at = "check"
    /\ workers' = [workers EXCEPT ![i] =
                      Worker(IF _running THEN "sleep" ELSE "ended", <<>>)]
    /\ UNCHANGED <<store, meta, now, last, pc, _running, _refresh_times>>
    /\ RAFrame

\* refresh_worker: the sleep is over, _refresh_expiring_keys lists the keys
\* under self._lock.
W_List(i) ==
    LET keys == [j \in 1..Len(_refresh_times) |-> _refresh_times[j].key]
    IN /\ i <= Len(workers)
       /\ workers[i].at = "sleep"
       /\ workers' = [workers EXCEPT ![i] =
                         IF keys = <<>> THEN Worker("check", <<>>)
                         ELSE Worker("refresh", keys)]
       /\ UNCHANGED <<store, meta, now, last, pc, _running, _refresh_times>>
       /\ RAFrame

StopWorker(at, keys, value) == [at |-> at, keys |-> keys, value |-> value]

\* The worker goes on to the next key it listed, or back to the loop test.
NextKey(w) ==
    IF Tail(w.keys) = <<>> THEN Worker("check", <<>>)
    ELSE Worker("refresh", Tail(w.keys))

\* _refresh_expiring_keys: backend.exists(key); a key that is not there is
\* skipped, and so is one whose call raises.
S_Exists(i) ==
    LET k == Head(workers[i].keys)
        x == IF closed
             THEN [store |-> store, meta |-> meta, result |-> FALSE]
             ELSE backend_exists(Backend, enable_metadata, k, now)
    IN /\ i <= Len(workers)
       /\ workers[i].at = "refresh"
       /\ store' = x.store
       /\ meta' = x.meta
       /\ workers' = [workers EXCEPT ![i] =
                         IF x.result THEN Worker("callback", @.keys)
                         ELSE NextKey(@)]
       /\ last' = Call("refresh", k, Ret(x, NoValue, FALSE, <<>>))
       /\ UNCHANGED <<now, pc, _running, _refresh_times>>
       /\ RAFrame

\* _refresh_expiring_keys: refresh_callback(key) returns rv; None is skipped.
S_Callback(i, rv) ==
    /\ i <= Len(workers)
    /\ workers[i].at = "callback"
    /\ workers' = [workers EXCEPT ![i] =
                      IF rv = NoValue THEN NextKey(@)
                      ELSE StopWorker("set", @.keys, rv)]
    /\ UNCHANGED <<store, meta, now, last, pc, _running, _refresh_times>>
    /\ RAFrame

\* _refresh_expiring_keys: backend.set(key, new_value); when the call raises
\* the key is left.
S_Set(i) ==
    LET k == Head(workers[i].keys)
        r == Base_set(Backend, enable_metadata, closed, k, workers[i].value,
                      None, now)
    IN /\ i <= Len(workers)
       /\ workers[i].at = "set"
       /\ store' = r.store
       /\ meta' = r.meta
       /\ workers' = [workers EXCEPT ![i] =
                         IF r.raised = "" THEN Worker("stamp", @.keys)
                         ELSE NextKey(@)]
       /\ last' = Call("refresh", k, r)
       /\ UNCHANGED <<now, pc, _running, _refresh_times>>
       /\ RAFrame

\* _refresh_expiring_keys: self._refresh_times[key] = time.time() under
\* self._lock.
S_Stamp(i) ==
    LET k == Head(workers[i].keys)
        rt == QueuePut(_refresh_times, k, now)
    IN /\ i <= Len(workers)
       /\ workers[i].at = "stamp"
       /\ _refresh_times' = rt
       /\ workers' = [workers EXCEPT ![i] = NextKey(@)]
       /\ last' = Call("refresh", k, Ret(Backend, NoValue, TRUE, <<>>))
       /\ UNCHANGED <<store, meta, now, pc, _running>>
       /\ RAFrame

WorkerStep ==
    \/ \E i \in WorkerIds : W_Check(i)
    \/ \E i \in WorkerIds : W_List(i)
    \/ \E i \in WorkerIds : S_Exists(i)
    \/ \E i \in WorkerIds, rv \in RefreshValues : S_Callback(i, rv)
    \/ \E i \in WorkerIds : S_Set(i)
    \/ \E i \in WorkerIds : S_Stamp(i)

\* The steps of the application thread over the keys ks, which starts at
\* most mw refresh threads.
AppStep(ks, mw) ==
    \/ \E k \in ks, cb \in RACallbacks : R_Get(k, cb)
    \/ R_GetSchedule(mw)
    \/ R_GetSet
    \/ R_GetStamp
    \/ \E k \in ks, v \in RAValues : R_Set(k, v)
    \/ R_SetStamp
    \/ \E k \in ks : R_Delete(k)
    \/ R_DeleteUntrack
    \/ R_ClearStop
    \/ R_ClearJoin
    \/ S_ClearTimes
    \/ S_ClearBackend

NextRA ==
    \/ R_Tick
    \/ AppStep(RAKeys, RAWorkers)
    \/ WorkerStep

SpecRA == InitRA /\ [][NextRA]_vars

----------------------------------------------------------------------------
(* SpecLock: the threads of an application call one CacheManager, built on  *)
(* one MemoryBackend and one strategy, while the refresh threads that the   *)
(* strategy started run.  The three kinds of threading.Lock are "manager"   *)
(* (CacheManager._lock), "strategy" (the _lock of the strategy) and         *)
(* "backend" (MemoryBackend._lock).  A thread runs a program: the lock      *)
(* acquisitions and releases of the call it is in, and between them the     *)
(* steps that run without a change of locks.  A thread whose next           *)
(* instruction acquires a lock that is held waits.  pc[n] is the thread of  *)
(* the application's caller n, workers the refresh threads that have not    *)
(* ended, in the order they started.                                        *)

Acq(l) == [i |-> "acq", a |-> l, k |-> "", e |-> FALSE]
Rel(l) == [i |-> "rel", a |-> l, k |-> "", e |-> FALSE]
Do(a, k) == [i |-> "do", a |-> a, k |-> k, e |-> FALSE]
\* The last instruction inside a try block of the refresh thread.
EndTry(x) == [x EXCEPT !.e = TRUE]

\* What is left of a program when the try block it is in is left early.
RECURSIVE SkipTry(_)
SkipTry(prog) ==
    IF prog = <<>> THEN <<>>
    ELSE IF Head(prog).e THEN Tail(prog)
    ELSE SkipTry(Tail(prog))

LockValue == "v1"
BoolStr(x) == IF x THEN "True" ELSE "False"

\* A method of the backend: size and keys of MemoryBackend use the dict under
\* the backend's lock; get, set, delete, exists and clear of BaseBackend
\* first run _check_closed, under no lock, and then their _impl under the
\* backend's lock.
Backend_prog(call, k) ==
    IF call \in {"backend.size", "backend.keys"}
    THEN <<Acq("backend"), Do(call, k), Rel("backend")>>
    ELSE <<Do("backend.check", k), Acq("backend"), Do(call, k),
           Rel("backend")>>

\* LRUEvictionStrategy.get, set, delete, clear.
LRU_prog(op, k) ==
    CASE op = "get" -> Backend_prog("backend.get", k) \o <<Do("lru.get", k)>>
      [] op = "set" ->
            <<Acq("strategy"), Do("lru.evict", k), Do("lru.insert", k),
              Rel("strategy")>> \o Backend_prog("backend.set", k)
      [] op = "delete" ->
            Backend_prog("backend.delete", k) \o <<Do("lru.delete", k)>>
      [] op = "clear" ->
            <<Acq("strategy"), Do("lru.clear", ""), Rel("strategy")>>
                \o Backend_prog("backend.clear", "")

\* WriteBackStrategy.get (BaseStrategy.get), set, delete (BaseStrategy.delete)
\* and clear.
WB_prog(op, k) ==
    CASE op = "get" -> Backend_prog("backend.get", k) \o <<Do("base.get", k)>>
      [] op = "set" -> Backend_prog("backend.set", k) \o <<Do("wb.set", k)>>
      [] op = "delete" -> Backend_prog("backend.delete", k)
      [] op = "clear" ->
            <<Acq("strategy"), Do("wb.flush", ""), Rel("strategy")>>
                \o Backend_prog("backend.clear", "")

\* RefreshAheadStrategy.get, set, delete, clear.
RA_prog(op, k) ==
    CASE op = "get" -> Backend_prog("backend.get", k) \o <<Do("ra.get", k)>>
      [] op = "set" -> Backend_prog("backend.set", k) \o <<Do("ra.set", k)>>
      [] op = "delete" ->
            Backend_prog("backend.delete", k) \o <<Do("ra.delete", k)>>
      [] op = "clear" ->
            <<Do("ra.stop", ""), Do("ra.join", ""), Acq("strategy"),
              Do("ra.clear", ""), Rel("strategy")>>
                \o Backend_prog("backend.clear", "")

\* CacheAsideStrategy.get, set, delete, clear: the backend's method, and in
\* get the miss callback after it.
CA_prog(op, k) ==
    CASE op = "get" -> Backend_prog("backend.get", k) \o <<Do("base.get", k)>>
      [] op = "set" -> Backend_prog("backend.set", k)
      [] op = "delete" -> Backend_prog("backend.delete", k)
      [] op = "clear" -> Backend_prog("backend.clear", "")

Strategy_prog(s, op, k) ==
    CASE s.kind = "lru" -> LRU_prog(op, k)
      [] s.kind = "cache_aside" -> CA_prog(op, k)
      [] s.kind = "write_back" -> WB_prog(op, k)
      [] s.kind = "refresh_ahead" -> RA_prog(op, k)

\* What get does with the value of the miss callback: self.set, and in
\* RefreshAheadStrategy backend.set and the refresh time.
Populate_prog(s, k) ==
    IF s.kind = "refresh_ahead"
    THEN Backend_prog("backend.set", k)
             \o <<Acq("strategy"), Do("ra.stamp", k), Rel("strategy")>>
    ELSE Strategy_prog(s, "set", k)

\* A refresh that goes through the manager while the tracking lock is held.
Refresh_prog_through_manager(k) ==
    <<Acq("strategy"), Acq("manager")>>
        \o Backend_prog("backend.exists", k)
        \o <<Do("worker.exists", k), Do("refresh_callback", k)>>
        \o Backend_prog("backend.set", k)
        \o <<Do("ra.stamp", k), Rel("manager"), EndTry(Rel("strategy"))>>

\* _refresh_expiring_keys, the body of the loop for the key k.
Refresh_prog(k) ==
    Backend_prog("backend.exists", k)
        \o <<Do("worker.exists", k), Do("refresh_callback", k)>>
        \o Backend_prog("backend.set", k)
        \o <<Acq("strategy"), Do("ra.stamp", k), EndTry(Rel("strategy"))>>

RECURSIVE Refresh_all(_)
Refresh_all(keys) ==
    IF keys = <<>> THEN <<>>
    ELSE Refresh_prog(Head(keys)) \o Refresh_all(Tail(keys))

\* The operations of CacheManager: get, set, delete and exists hand the
\* strategy and the backend full_key = self._make_key(key), and the body
\* runs inside "with self._lock".  keys returns the generator that
\* MemoryBackend.keys is; its body runs when the caller iterates it, after
\* keys has returned.
Manager_prog(cfg, s, op, k) ==
    CASE op \in {"get", "set", "delete"} ->
            <<Acq("manager")>> \o Strategy_prog(s, op, _make_key(cfg, k))
                \o <<Rel("manager")>>
      [] op = "clear" ->
            <<Acq("manager")>> \o Strategy_prog(s, op, k) \o <<Rel("manager")>>
      [] op = "exists" ->
            <<Acq("manager")>>
                \o Backend_prog("backend.exists", _make_key(cfg, k))
                \o <<Rel("manager")>>
      [] op = "size" ->
            <<Acq("manager")>> \o Backend_prog("backend.size", "")
                \o <<Rel("manager")>>
      [] op = "keys" ->
            <<Acq("manager"), Rel("manager")>>
                \o Backend_prog("backend.keys", "")
      [] op = "close" ->
            <<Acq("manager"), Do("backend.close", ""), Rel("manager")>>

LockKeys == {"a", "b"}
\* Two keys where a second key evicts the first, one key otherwise.
KeysOf(s) == IF s.kind = "lru" THEN LockKeys ELSE {"a"}
LockCallbacks == {None, Some(LockValue)}
LockRefreshValues == {LockValue, NoValue}
KeyOps == {"get", "set", "delete", "exists"}
NoKeyOps == {"clear", "size", "keys", "close"}

LockStrategies ==
    {s \in EvictionStrategies : s.kind = "lru" /\ s.max_size = 1}
    \cup {s \in WriteBackStrategies :
              s.has_callback /\ s.flush_interval = Wait}
    \cup {s \in RefreshAheadStrategies : s.has_refresh}

\* A thread: the miss callback of the get it is in, the program it has left,
\* the locks it holds, and the value the last call in it returned.
Thread(cb, prog) ==
    [cb |-> cb, prog |-> prog, holds |-> {}, val |-> NoValue]
IdleThread == Thread(None, <<>>)

CallerIds == {1, 2}
Callers == {<<"caller", n>> : n \in CallerIds}
\* At most two refresh threads that have not ended are explored.
RefreshThreads == {<<"worker", 1>>, <<"worker", 2>>}
LockThreads == Callers \cup RefreshThreads
Started(t) == t[1] = "caller" \/ t[2] <= Len(workers)
Thr(t) == IF t[1] = "caller" THEN pc[t[2]] ELSE workers[t[2]]
Running(t) == Started(t) /\ Thr(t).prog # <<>>
Holds(t, l) == Started(t) /\ l \in Thr(t).holds
Free(l) == \A t \in LockThreads : ~Holds(t, l)
\* The thread's next instruction acquires l.
Wants(t, l) ==
    /\ Running(t)
    /\ Head(Thr(t).prog).i = "acq"
    /\ Head(Thr(t).prog).a = l

InitLock ==
    /\ InitBackend
    /\ InitStrategy
    /\ ~enable_metadata
    /\ config = DefaultConfig
    /\ strategy \in LockStrategies
    /\ pc = [n \in CallerIds |-> IdleThread]

\* The refresh threads that have not ended.
Alive_ == 1..Len(workers)

\* The threads that are inside a call or have not ended.  At most one more
\* than there are callers is explored at a time: two callers and a refresh
\* thread, or one caller and two refresh threads.
Active == {t \in LockThreads : Running(t)}
MaxActive == Cardinality(CallerIds) + 1
\* One more refresh thread is within what is explored.
Room ==
    /\ Cardinality(Alive_) < Cardinality(RefreshThreads)
    /\ Cardinality(Active) < MaxActive

\* The thread t becomes th; a refresh thread whose program is over has
\* ended and leaves workers.
Becomes(t, th) ==
    IF t[1] = "caller"
    THEN pc' = [pc EXCEPT ![t[2]] = th] /\ workers' = workers
    ELSE /\ workers' =
                IF th.prog = <<>>
                THEN SubSeq(workers, 1, t[2] - 1)
                         \o SubSeq(workers, t[2] + 1, Len(workers))
                ELSE [workers EXCEPT ![t[2]] = th]
         /\ pc' = pc

\* The thread goes on with the instructions pre and then the rest.
Next_(th, pre) == [th EXCEPT !.prog = pre \o Tail(@)]
NextVal(th, v, pre) == [th EXCEPT !.prog = pre \o Tail(@), !.val = v]
\* An exception leaves the with blocks, which release their locks; a caller
\* gets it, the refresh thread goes on after the try block.  What the
\* refresh thread got for one key is gone when it leaves the try block.
Thrown(t, th) ==
    IF t[1] = "caller" THEN IdleThread
    ELSE [th EXCEPT !.prog = SkipTry(@), !.holds = {}, !.val = NoValue]
\* The refresh thread leaves the if of the try block it is in.
Skipped(th) == [th EXCEPT !.prog = SkipTry(@), !.val = NoValue]

LockFrame == UNCHANGED <<enable_metadata, config, strategy, expect, last,
                         access_counts, insertion_order, ds>>

\* The clock passes the second after which a key is due, once.
L_Tick ==
    /\ now < Wait
    /\ now' = now + Wait
    /\ UNCHANGED <<store, meta, closed, access_order, wbVars, raVars, pc>>
    /\ LockFrame

\* A caller calls an operation of the manager.
L_Call(t, op, k, cb) ==
    /\ ~Running(t)
    /\ Cardinality(Active) < MaxActive
    /\ op \in KeyOps <=> k \in KeysOf(strategy)
    /\ op \in NoKeyOps <=> k = ""
    /\ ~IsNone(cb) => op = "get"
    /\ pc' = [pc EXCEPT ![t[2]] =
                 Thread(cb, Manager_prog(config, strategy, op, k))]
    /\ UNCHANGED <<store, meta, closed, now, access_order, wbVars, raVars>>
    /\ LockFrame

\* with self._lock on a lock that its holder may take again.
L_Acquire_reentrant(t) ==
    /\ Running(t)
    /\ LET th == Thr(t)
           x == Head(th.prog)
       IN /\ x.i = "acq"
          /\ Free(x.a) \/ x.a \in th.holds
          /\ Becomes(t, [th EXCEPT !.prog = Tail(@),
                                   !.holds = @ \cup {x.a}])
    /\ UNCHANGED <<store, meta, closed, now, access_order, wbVars, _running,
                   _refresh_times>>
    /\ LockFrame

\* with self._lock, entry: the lock is free and the thread takes it.
L_Acquire(t) ==
    /\ Running(t)
    /\ LET th == Thr(t)
           x == Head(th.prog)
       IN /\ x.i = "acq"
          /\ Free(x.a)
          /\ Becomes(t, [th EXCEPT !.prog = Tail(@),
                                   !.holds = @ \cup {x.a}])
    /\ UNCHANGED <<store, meta, closed, now, access_order, wbVars, _running,
                   _refresh_times>>
    /\ LockFrame

\* with self._lock, exit.  A caller whose program ends here has returned.
L_Release(t) ==
    /\ Running(t)
    /\ LET th == Thr(t)
           x == Head(th.prog)
           left == [th EXCEPT !.prog = Tail(@), !.holds = @ \ {x.a},
                              !.val = IF x.e THEN NoValue ELSE @]
       IN /\ x.i = "rel"
          /\ Becomes(t, IF left.prog = <<>> /\ t[1] = "caller"
                        THEN IdleThread ELSE left)
    /\ UNCHANGED <<store, meta, closed, now, access_order, wbVars, _running,
                   _refresh_times>>
    /\ LockFrame

BackendCalls ==
    {"backend.check", "backend.get", "backend.set", "backend.delete",
     "backend.exists", "backend.clear", "backend.size", "backend.keys",
     "backend.close"}

\* One step of a method of the backend: _check_closed, which raises when the
\* backend is closed, or the statements under the backend's lock, which do
\* not look at _closed; close takes no lock.
L_Backend(t) ==
    /\ Running(t)
    /\ LET th == Thr(t)
           x == Head(th.prog)
           raises == closed /\ x.a = "backend.check"
           r == CASE x.a = "backend.get" ->
                        backend_get(Backend, enable_metadata, x.k, now)
                  [] x.a = "backend.set" ->
                        backend_set(Backend, enable_metadata, x.k, LockValue,
                                    None, now)
                  [] x.a = "backend.delete" ->
                        backend_delete(Backend, enable_metadata, x.k)
                  [] x.a = "backend.exists" ->
                        backend_exists(Backend, enable_metadata, x.k, now)
                  [] x.a = "backend.clear" ->
                        backend_clear(Backend, enable_metadata)
                  [] x.a = "backend.close" ->
                        [store |-> store,
                         meta |-> _clear_metadata(Backend, enable_metadata),
                         result |-> TRUE]
                  [] x.a = "backend.size" ->
                        [store |-> store, meta |-> meta,
                         result |-> backend_size(Backend)]
                  [] x.a = "backend.keys" ->
                        [store |-> store, meta |-> meta,
                         result |-> backend_keys(Backend)]
                  [] x.a = "backend.check" ->
                        [store |-> store, meta |-> meta, result |-> TRUE]
           val == IF x.a = "backend.get" THEN r.result
                  ELSE IF x.a \in {"backend.size", "backend.keys"}
                  THEN ToString(r.result)
                  ELSE BoolStr(r.result)
       IN /\ x.i = "do"
          /\ x.a \in BackendCalls
          /\ store' = IF raises THEN store ELSE r.store
          /\ meta' = IF raises THEN meta ELSE r.meta
          /\ closed' = (closed \/ x.a = "backend.close")
          /\ Becomes(t, IF raises THEN Thrown(t, th)
                        ELSE IF x.a = "backend.check" THEN Next_(th, <<>>)
                        ELSE NextVal(th, val, <<>>))
    /\ UNCHANGED <<now, access_order, wbVars, _running, _refresh_times>>
    /\ LockFrame

Branches ==
    {"lru.get", "lru.delete", "base.get", "wb.set", "ra.get", "ra.set",
     "ra.delete", "ra.stop", "ra.join", "worker.check", "worker.exists"}

\* The code of a strategy between two uses of a lock: what the call does
\* next with the value the backend returned.  The join of
\* _stop_refresh_thread returns when the thread has ended or the second of
\* its timeout is over, wherever the thread is then.
L_Branch(t) ==
    /\ Running(t)
    /\ LET th == Thr(t)
           x == Head(th.prog)
           hit == th.val # NoValue
           miss == <<Do("miss_callback", x.k)>>
           locked(a) == <<Acq("strategy"), Do(a, x.k), Rel("strategy")>>
           pre == CASE x.a = "lru.get" ->
                          IF hit THEN locked("lru.touch")
                          ELSE IF ~IsNone(th.cb) THEN miss ELSE <<>>
                    [] x.a = "lru.delete" ->
                          IF th.val = "True" THEN locked("lru.pop") ELSE <<>>
                    [] x.a = "base.get" ->
                          IF ~hit /\ ~IsNone(th.cb) THEN miss ELSE <<>>
                    [] x.a = "wb.set" ->
                          IF strategy.has_callback /\ th.val = "True"
                          THEN locked("wb.queue") ELSE <<>>
                    [] x.a = "ra.get" ->
                          IF hit /\ strategy.has_refresh
                          THEN locked("ra.schedule")
                          ELSE IF ~hit /\ ~IsNone(th.cb) THEN miss ELSE <<>>
                    [] x.a = "ra.set" ->
                          IF th.val = "True" THEN locked("ra.stamp") ELSE <<>>
                    [] x.a = "ra.delete" ->
                          IF th.val = "True" THEN locked("ra.untrack")
                          ELSE <<>>
                    [] x.a = "worker.check" ->
                          IF _running
                          THEN <<Acq("strategy"), Do("worker.list", ""),
                                 Rel("strategy")>>
                          ELSE <<>>
                    [] OTHER -> <<>>
       IN /\ x.i = "do"
          /\ x.a \in Branches
          /\ _running' = (_running /\ x.a # "ra.stop")
          /\ Becomes(t, IF x.a = "worker.exists" /\ th.val # "True"
                        THEN Skipped(th)
                        ELSE Next_(th, pre))
    /\ UNCHANGED <<store, meta, closed, now, access_order, wbVars,
                   _refresh_times>>
    /\ LockFrame

LockedSteps ==
    {"lru.touch", "lru.evict", "lru.del", "lru.insert", "lru.pop",
     "lru.clear", "wb.queue", "wb.flush", "ra.stamp", "ra.untrack",
     "ra.clear", "worker.list"}

\* The write callbacks of _flush for the queue q.
Writes(q) == [j \in 1..Len(q) |-> Do("wb.write", q[j].key)]

\* The statements of a strategy inside "with self._lock" that use no other
\* lock.
L_Locked(t) ==
    /\ Running(t)
    /\ LET th == Thr(t)
           x == Head(th.prog)
           evict == /\ ~InSeq(access_order, x.k)
                    /\ Len(access_order) >= strategy.max_size
           queued == IF x.a = "wb.queue"
                     THEN QueuePut(_write_queue, x.k, LockValue)
                     ELSE _write_queue
           should_flush ==
               \/ Len(queued) >= strategy.batch_size
               \/ now - _last_flush >= strategy.flush_interval
           flush == /\ x.a \in {"wb.queue", "wb.flush"}
                    /\ queued # <<>>
                    /\ x.a = "wb.queue" => should_flush
           listed == [j \in 1..Len(_refresh_times) |-> _refresh_times[j].key]
           pre == CASE x.a = "lru.evict" /\ evict ->
                          Backend_prog("backend.delete", Head(access_order))
                              \o <<Do("lru.del", Head(access_order))>>
                    [] flush -> Writes(queued)
                    [] OTHER -> <<>>
       IN /\ x.i = "do"
          /\ x.a \in LockedSteps
          /\ access_order' =
                 CASE x.a \in {"lru.touch", "lru.insert"} ->
                          Append(SeqRemove(access_order, x.k), x.k)
                   [] x.a \in {"lru.del", "lru.pop"} ->
                          SeqRemove(access_order, x.k)
                   [] x.a = "lru.clear" -> <<>>
                   [] OTHER -> access_order
          /\ _write_queue' = IF flush THEN <<>> ELSE queued
          /\ _last_flush' = IF flush THEN now ELSE _last_flush
          /\ _refresh_times' =
                 CASE x.a = "ra.stamp" -> QueuePut(_refresh_times, x.k, now)
                   [] x.a = "ra.untrack" ->
                          SelectSeq(_refresh_times, LAMBDA e : e.key # x.k)
                   [] x.a = "ra.clear" -> <<>>
                   [] OTHER -> _refresh_times
          /\ Becomes(t, IF x.a = "worker.list"
                        THEN [th EXCEPT !.prog =
                                 <<th.prog[2]>> \o Refresh_all(listed)
                                     \o <<Do("worker.check", "")>>]
                        ELSE Next_(th, pre))
    /\ UNCHANGED <<store, meta, closed, now, _running>>
    /\ LockFrame

\* _schedule_refresh inside "with self._lock": _start_refresh_thread starts
\* a refresh thread when the key is due and _running is false, whether or
\* not an older thread is alive.
L_Schedule(t) ==
    /\ Running(t)
    /\ LET th == Thr(t)
           x == Head(th.prog)
           start == NeedsRefresh(_refresh_times, x.k, now) /\ ~_running
       IN /\ x.i = "do"
          /\ x.a = "ra.schedule"
          /\ start => Room
          /\ _running' = (_running \/ start)
          /\ pc' = [pc EXCEPT ![t[2]] = Next_(th, <<>>)]
          /\ workers' =
                 IF start
                 THEN Append(workers,
                             Thread(None, <<Do("worker.check", "")>>))
                 ELSE workers
    /\ UNCHANGED <<store, meta, closed, now, access_order, wbVars,
                   _refresh_times>>
    /\ LockFrame

Callbacks_ == {"miss_callback", "wb.write", "refresh_callback"}

\* A callback of the application returns (the value v) or, if it is the
\* write callback, may raise; it uses no lock of the cache.
L_Callback(t, v, raises) ==
    /\ Running(t)
    /\ LET th == Thr(t)
           x == Head(th.prog)
       IN /\ x.i = "do"
          /\ x.a \in Callbacks_
          /\ raises => x.a = "wb.write"
          /\ x.a = "miss_callback" => v = The(th.cb)
          /\ x.a = "wb.write" => v = NoValue
          /\ _write_queue' =
                 IF raises THEN QueuePut(_write_queue, x.k, LockValue)
                 ELSE _write_queue
          /\ Becomes(t,
                 CASE x.a = "miss_callback" ->
                          NextVal(th, v, IF v # NoValue
                                         THEN Populate_prog(strategy, x.k)
                                         ELSE <<>>)
                   [] x.a = "refresh_callback" ->
                          IF v # NoValue THEN NextVal(th, v, <<>>)
                          ELSE Skipped(th)
                   [] OTHER -> Next_(th, <<>>))
    /\ UNCHANGED <<store, meta, closed, now, access_order, _last_flush,
                   _running, _refresh_times>>
    /\ LockFrame

NextLock ==
    \/ L_Tick
    \/ \E t \in Callers, op \in KeyOps \cup NoKeyOps, k \in LockKeys \cup {""},
          cb \in LockCallbacks : L_Call(t, op, k, cb)
    \/ \E t \in LockThreads : L_Acquire(t)
    \/ \E t \in LockThreads : L_Release(t)
    \/ \E t \in LockThreads : L_Backend(t)
    \/ \E t \in LockThreads : L_Branch(t)
    \/ \E t \in LockThreads : L_Locked(t)
    \/ \E t \in Callers : L_Schedule(t)
    \/ \E t \in LockThreads, v \in LockRefreshValues, raises \in BOOLEAN :
          L_Callback(t, v, raises)

SpecLock == InitLock /\ [][NextLock]_vars

----------------------------------------------------------------------------
(* Claims about the eviction strategies, single-threaded (SpecEvict).      *)

\* C1: every key of the shadow index of an LRU, LFU or FIFO strategy is a key
\* of the backend after every completed call, lazy expiry included.
C1_IndexSubsetOfBackend == IndexKeys \subseteq DOMAIN store

\* A strategy get has just removed an expired key from the backend.
C1_ExpiredKeyRead ==
    /\ last.op = "get"
    /\ last.key \notin DOMAIN store
    /\ last.key \in IndexKeys

\* C2: immediately after any set returns, the shadow index of a strategy built
\* with max_size = n holds at most n keys.
C2_CapacityBound ==
    last.op = "set" => Cardinality(IndexKeys) <= strategy.max_size

\* C3: when threads call set, get and delete on one eviction strategy and one
\* backend with no manager, then once every call has returned the backend's
\* keys are the keys of the shadow index and there are at most max_size.
C3_QuiescentAgreement ==
    (\A t \in DOMAIN pc : pc[t] = Idle) =>
        /\ DOMAIN store = IndexKeys
        /\ Cardinality(DOMAIN store) <= strategy.max_size

----------------------------------------------------------------------------
(* Claims about WriteBackStrategy (SpecWB, SpecWBFair).                    *)

\* The call that has just returned invoked write_callback(e.key, e.value)
\* and the callback returned without raising.
DeliveredNow(e) ==
    \E i \in 1..Len(last.calls) :
        last.calls[i] = <<"write_callback", e.key, e.value, "ok">>

\* The call that has just returned passed e to write_callback.
PassedNow(e) ==
    \E i \in 1..Len(last.calls) :
        /\ last.calls[i][1] = "write_callback"
        /\ last.calls[i][2] = e.key
        /\ last.calls[i][3] = e.value

\* The call that has just returned accepted a newer pair for the key of e.
SupersededNow(e) ==
    /\ last.op \in {"set", "get"}
    /\ last.key = e.key
    /\ \/ \E f \in QueueItems(_write_queue) : f.key = e.key /\ f.value # e.value
       \/ \E i \in 1..Len(last.calls) :
             /\ last.calls[i][1] = "write_callback"
             /\ last.calls[i][2] = e.key
             /\ last.calls[i][3] # e.value

\* C4 as stated: a pair accepted into the pending queue leaves the queue only
\* after a write_callback invocation for that pair returned without raising.
C4_AtLeastOnce ==
    [][\A e \in QueueItems(_write_queue) :
          e \notin QueueItems(_write_queue') => DeliveredNow(e)']_vars

\* C4, amended: a pair leaves the pending queue only after a write_callback
\* invocation for that pair returned without raising, or when a later set of
\* the same key puts a newer value in its place (the queue holds one value
\* per key); a pair whose callback raised stays queued.
C4_AtLeastOncePerKey ==
    [][\A e \in QueueItems(_write_queue) :
          e \notin QueueItems(_write_queue') =>
              DeliveredNow(e)' \/ SupersededNow(e)']_vars

\* A flush has delivered one pair and kept the pair whose callback raised.
C4_Witness ==
    /\ last.op = "flush"
    /\ \E i, j \in 1..Len(last.calls) :
          /\ last.calls[i][4] = "ok"
          /\ last.calls[j][4] = "raised"
          /\ [key |-> last.calls[j][2], value |-> last.calls[j][3]]
                 \in QueueItems(_write_queue)
          /\ last.calls[i][2] \notin QueueKeys(_write_queue)

\* C5: a pair in the pending queue is eventually passed to the write
\* callback once the flush interval has elapsed, with no further call of the
\* application needed.
C5_EventuallyFlushed ==
    \A k \in WBKeys, v \in WBValues :
        (/\ [key |-> k, value |-> v] \in QueueItems(_write_queue)
         /\ now - _last_flush >= strategy.flush_interval)
            ~> PassedNow([key |-> k, value |-> v])

----------------------------------------------------------------------------
(* Claims about WriteThroughStrategy (SpecWT).                             *)

\* The write callback was invoked by the last call, with this outcome.
WriteCallbackGave(outcome) ==
    \E i \in 1..Len(last.calls) :
        last.calls[i][1] = "write_callback" /\ last.calls[i][4] = outcome

\* The values the last call passed to the write callback.
WrittenValues ==
    {last.calls[i][3] : i \in {j \in 1..Len(last.calls) :
                                  last.calls[j][1] = "write_callback"}}

\* C7: when the write callback raises during WriteThroughStrategy.set, the
\* set raises and the backend's values and metadata are what they were before
\* the call, for every key.
C7_FailureLeavesCacheUntouched ==
    [][(last.op = "set" /\ WriteCallbackGave("raised"))' =>
          /\ last'.raised = "RuntimeError"
          /\ store' = store
          /\ meta' = meta]_vars

\* A set whose callback raised has left another value of the key in place.
C7_Witness ==
    /\ last.op = "set"
    /\ WriteCallbackGave("raised")
    /\ last.raised = "RuntimeError"
    /\ last.key \in DOMAIN store
    /\ store[last.key] \notin WrittenValues

\* C8: after every WriteThroughStrategy.set, returned or raised, the data
\* store received (k, v) if and only if the backend now holds v for k.
C8_Agreement ==
    last.op = "set" /\ strategy.has_callback =>
        \A v \in WrittenValues :
            WriteCallbackGave("ok") <=>
                /\ last.raised = ""
                /\ last.key \in DOMAIN store
                /\ store[last.key] = v

\* The same agreement for the sets made while the backend is open.
C8_AgreementWhileOpen == ~closed => C8_Agreement

----------------------------------------------------------------------------
(* Claims about the refresh threads of RefreshAheadStrategy (SpecStop).     *)

\* C6: at most one refresh worker of a RefreshAheadStrategy is alive at any
\* time, also when a get arrives after clear() has returned while the
\* previous worker is still inside an iteration.  Violated: clear returns
\* while the worker is inside refresh_callback, the next get that is due
\* starts a second thread, and the first finds _running true at its loop test.
C6_SingleWorker == Cardinality(Alive) <= 1

----------------------------------------------------------------------------
(* Claims about the order of eviction (SpecEvict).                         *)

\* The sequences of n distinct keys.
DistinctKeys(n) ==
    {ks \in [1..n -> OrderKeys] : \A i, j \in 1..n : i # j => ks[i] # ks[j]}

\* LRUEvictionStrategy.set of the keys ks, in order, on an empty backend.
RECURSIVE LRU_sets(_, _, _)
LRU_sets(ks, ms, em) ==
    IF ks = <<>> THEN [index |-> <<>>, store |-> Empty, meta |-> Empty]
    ELSE LET p == LRU_sets(SubSeq(ks, 1, Len(ks) - 1), ms, em)
         IN LRU_set(p.index, ms, [store |-> p.store, meta |-> p.meta], em,
                    FALSE, ks[Len(ks)], "v1", None, 0)

\* The results of the calls the strategy may get next: set(k) and get(k).
NextSet(k) ==
    Evict_set(strategy, Index, Backend, enable_metadata, closed, k, "v1",
              None, now)
NextGet(k, cb) ==
    Evict_get(strategy, Index, Backend, enable_metadata, closed, k, cb, now)
NextCalls(k) ==
    {[op |-> "set", r |-> NextSet(k)]} \cup
    {[op |-> "get", r |-> NextGet(k, cb)] : cb \in EvCallbacks}

\* The call c wrote its key: a set, or a get that populated a miss.
Admits(c) == c.op = "set" \/ (c.r.calls # <<>> /\ c.r.value # NoValue)
\* The call c touched its key: it wrote it or it was a get hit.
Touches(c) == c.op = "set" \/ c.r.value # NoValue

\* C11: with LRU(max_size n) on an empty backend, n + 1 sets of distinct keys
\* leave the first key in neither the backend nor the recency list and the
\* others in both; and whatever set or get comes next, the recency list
\* keeps the tracked keys in the order of their latest touch (set or get
\* hit), an eviction happens exactly when a key that is not tracked is
\* written while the list is full, and its one victim is the head of the
\* list, the key touched longest ago, which leaves the backend too.
C11_Scenario ==
    \A ks \in DistinctKeys(strategy.max_size + 1) :
        LET r == LRU_sets(ks, strategy.max_size, enable_metadata)
        IN /\ r.index = Tail(ks)
           /\ DOMAIN r.store = SeqKeys(Tail(ks))
           /\ ks[1] \notin DOMAIN r.store

C11_Call(k, c) ==
    LET victims == SeqKeys(access_order) \ SeqKeys(c.r.index)
        full == /\ k \notin SeqKeys(access_order)
                /\ Len(access_order) >= strategy.max_size
        survivors == SelectSeq(access_order,
                               LAMBDA x : x \notin victims \cup {k})
    IN /\ victims # {} <=> Admits(c) /\ full
       /\ victims # {} =>
              /\ victims = {Head(access_order)}
              /\ Head(access_order) \notin DOMAIN c.r.store
       /\ Admits(c) => DOMAIN c.r.store = (DOMAIN store \ victims) \cup {k}
       /\ c.r.index = IF Touches(c) THEN Append(survivors, k)
                      ELSE access_order

C11_LRUVictim ==
    strategy.kind = "lru" =>
        /\ access_order = <<>> => C11_Scenario
        /\ \A k \in OrderKeys : \A c \in NextCalls(k) : C11_Call(k, c)

\* Three sets of distinct keys under LRU(2) left the last two.
C11_Witness ==
    /\ strategy.kind = "lru" /\ strategy.max_size = 2
    /\ last.op = "set" /\ last.key = "c"
    /\ access_order = <<"b", "c">>
    /\ DOMAIN store = {"b", "c"}

\* get(k1) of the least recently used key and then set(k) of a new key, from
\* the state as it is.
LRU_get_then_set(k1, k) ==
    LET g == LRU_get(access_order, strategy.max_size, Backend, enable_metadata,
                     closed, k1, None, now)
    IN [get |-> g,
        set |-> LRU_set(g.index, strategy.max_size,
                        [store |-> g.store, meta |-> g.meta], enable_metadata,
                        closed, k, "v1", None, now)]

\* The index is at capacity and get of its least recently used key hits.
LRU_AtCapacity ==
    /\ strategy.kind = "lru"
    /\ Len(access_order) >= strategy.max_size
    /\ ~closed
    /\ backend_get(Backend, enable_metadata, Head(access_order), now).result
           # NoValue

\* After get(k1) and set(k): k1 is still tracked and stored, and the one key
\* that left is the key that was least recently used after the get.
C12_Protected(k1, k) ==
    LET r == LRU_get_then_set(k1, k)
    IN /\ r.get.value # NoValue
       /\ InSeq(r.set.index, k1)
       /\ k1 \in DOMAIN r.set.store
       /\ SeqKeys(r.get.index) \ SeqKeys(r.set.index) = {Head(r.get.index)}
       /\ Head(r.get.index) # k1
       /\ Head(r.get.index) \notin DOMAIN r.set.store

\* C12 as stated: with the LRU index at capacity and k1 its least recently
\* used key, a get(k1) hit followed by set of a new key does not evict k1;
\* the key that had become least recently used is evicted instead.
C12_GetProtects ==
    LRU_AtCapacity =>
        \A k \in OrderKeys \ SeqKeys(access_order) :
            C12_Protected(Head(access_order), k)

\* C12 for an index that holds another key besides k1: with a single
\* tracked key (max_size 1) k1 is itself the least recently used key after
\* the get, and the set evicts it.
C12_GetProtectsAmongSeveral ==
    LRU_AtCapacity /\ Len(access_order) >= 2 =>
        \A k \in OrderKeys \ SeqKeys(access_order) :
            C12_Protected(Head(access_order), k)

\* LRU(2) tracks a then b; get(a) and set(c) evict b and keep a.
C12_Witness ==
    /\ LRU_AtCapacity /\ strategy.max_size = 2
    /\ access_order = <<"a", "b">>
    /\ LET r == LRU_get_then_set("a", "c")
       IN /\ r.get.index = <<"b", "a">>
          /\ r.set.index = <<"a", "c">>
          /\ DOMAIN r.set.store = {"a", "c"}

\* C13: under FIFO the queue holds the tracked keys in the order of their
\* first admission, whatever set or get comes next: only the write of a key
\* that is not tracked changes the queue, by appending the key; get hits and
\* overwriting sets leave it as it is, so they never change which key goes
\* next; and an eviction, which happens exactly when a key that is not
\* tracked is written while the queue is full, takes the head of the queue,
\* the key admitted first, out of the queue and the backend.
C13_Call(k, c) ==
    LET victims == SeqKeys(insertion_order) \ SeqKeys(c.r.index)
        tracked == k \in SeqKeys(insertion_order)
        full == Len(insertion_order) >= strategy.max_size
        survivors == SelectSeq(insertion_order, LAMBDA x : x \notin victims)
    IN /\ victims # {} <=> Admits(c) /\ ~tracked /\ full
       /\ victims # {} =>
              /\ victims = {Head(insertion_order)}
              /\ Head(insertion_order) \notin DOMAIN c.r.store
       /\ Admits(c) => DOMAIN c.r.store = (DOMAIN store \ victims) \cup {k}
       /\ c.r.index = IF Admits(c) /\ ~tracked THEN Append(survivors, k)
                      ELSE insertion_order

C13_FIFOOrder ==
    strategy.kind = "fifo" =>
        \A k \in OrderKeys : \A c \in NextCalls(k) : C13_Call(k, c)

\* FIFO(2) admitted a then b, a was overwritten and then read; the next new
\* key still evicts a.
C13_Witness ==
    /\ strategy.kind = "fifo" /\ strategy.max_size = 2
    /\ insertion_order = <<"a", "b">>
    /\ last.op = "get" /\ last.key = "a" /\ last.value = "v1"
    /\ last.calls = <<>>
    /\ NextSet("a").index = <<"a", "b">>
    /\ NextSet("c").index = <<"b", "c">>
    /\ DOMAIN NextSet("c").store = {"b", "c"}

\* C14: under LFU the count of a tracked key is the number of get hits since
\* it was admitted (a new key starts at 0 when written and at 1 when first
\* seen by a get hit, a get hit adds one, a set changes no count), and
\* whatever set or get comes next, an eviction happens exactly when a key
\* that is not tracked is written while the index is full, and its one
\* victim has the least count of all tracked keys: no key with a strictly
\* higher count than another tracked key is evicted.
C14_Call(k, c) ==
    LET victims == CountKeys(access_counts) \ CountKeys(c.r.index)
        tracked == k \in CountKeys(access_counts)
        full == Len(access_counts) >= strategy.max_size
        hit == c.op = "get" /\ c.r.calls = <<>> /\ c.r.value # NoValue
    IN /\ victims # {} <=> Admits(c) /\ ~tracked /\ full
       /\ victims # {} =>
              \E v \in CountKeys(access_counts) :
                  /\ victims = {v}
                  /\ v \notin DOMAIN c.r.store
                  /\ \A j \in CountKeys(access_counts) :
                         CountOf(access_counts, v) <= CountOf(access_counts, j)
       /\ Admits(c) => DOMAIN c.r.store = (DOMAIN store \ victims) \cup {k}
       /\ CountKeys(c.r.index) =
              (CountKeys(access_counts) \ victims)
                  \cup (IF Admits(c) \/ hit THEN {k} ELSE {})
       /\ \A j \in CountKeys(c.r.index) :
              CountOf(c.r.index, j) =
                  (IF j \in CountKeys(access_counts)
                   THEN CountOf(access_counts, j) ELSE 0)
                  + (IF j = k /\ hit THEN 1 ELSE 0)

C14_LFUVictim ==
    strategy.kind = "lfu" =>
        \A k \in OrderKeys : \A c \in NextCalls(k) : C14_Call(k, c)

\* LFU(2) tracks a, read once, and b, never read; a get hit of a has just
\* returned, and the next new key evicts b.
C14_Witness ==
    /\ strategy.kind = "lfu" /\ strategy.max_size = 2
    /\ CountKeys(access_counts) = {"a", "b"}
    /\ access_counts[1].key = "a"
    /\ CountOf(access_counts, "a") = 1 /\ CountOf(access_counts, "b") = 0
    /\ last.op = "get" /\ last.key = "a" /\ last.value = "v1"
    /\ CountKeys(NextSet("c").index) = {"a", "c"}
    /\ DOMAIN NextSet("c").store = {"a", "c"}

----------------------------------------------------------------------------
(* Claims about the locks (SpecLock).                                      *)

\* The thread is inside a method of the strategy or of the backend that
\* holds that object's lock.
Touching(t) == Holds(t, "strategy") \/ Holds(t, "backend")
\* The caller is inside an operation: it has called it and does not wait to
\* enter it.
Operating(t) == Running(t) /\ ~Wants(t, "manager")

\* C15: every operation of CacheManager does all its work on the strategy
\* and the backend while it holds the manager's lock, so that at most one
\* caller at a time is inside an operation.
C15_Serialized ==
    /\ \A t \in Callers : Touching(t) => Holds(t, "manager")
    /\ \A t, u \in Callers : Operating(t) /\ Operating(u) => t = u

\* The only work of a caller outside the manager's lock is the body of the
\* generator that keys returned.
C15_OnlyKeysOutside ==
    \A t \in Callers :
        Operating(t) /\ ~Holds(t, "manager") =>
            \E n \in 1..3 :
                Thr(t).prog = SubSeq(Backend_prog("backend.keys", ""), n, 3)

\* What the thread waits for: the holder of the lock it is about to take
\* (the join of the refresh thread gives up after a second).
WaitsFor(t) ==
    LET x == Head(Thr(t).prog)
    IN IF x.i = "acq" THEN {u \in LockThreads : Holds(u, x.a)} ELSE {}

\* A step of the thread t.
ThreadStep(t) ==
    \/ L_Acquire(t) \/ L_Release(t) \/ L_Backend(t) \/ L_Branch(t)
    \/ L_Locked(t) \/ L_Schedule(t)
    \/ \E v \in LockRefreshValues, raises \in BOOLEAN : L_Callback(t, v, raises)

\* No thread waits for the manager's lock while it holds a strategy's lock.
C16_LockOrder ==
    \A t \in LockThreads : Wants(t, "manager") => ~Holds(t, "strategy")

\* The thread is about to start a refresh thread beyond those explored.
AtBound(t) ==
    LET x == Head(Thr(t).prog)
    IN /\ x.a = "ra.schedule"
       /\ NeedsRefresh(_refresh_times, x.k, now) /\ ~_running
       /\ ~Room

\* No set of threads waits forever: in none does every thread wait for a
\* thread of the set, and a thread that waits for nothing can take a step
\* (where the exploration goes on).
C16_NoDeadlock ==
    /\ \A D \in SUBSET LockThreads :
           D # {} => \E t \in D : ~Running(t) \/ WaitsFor(t) \cap D = {}
    /\ \A t \in LockThreads :
           Running(t) /\ WaitsFor(t) = {} /\ ~AtBound(t) =>
               ENABLED ThreadStep(t)

\* C16: no thread holds the lock of a strategy while it waits for the lock
\* of the manager, and the callers of the manager and the refresh thread
\* never deadlock (the callbacks return and call no operation of the cache).
C16_DeadlockFree == C16_LockOrder /\ C16_NoDeadlock

\* A caller inside an operation waits for the strategy's lock, which the
\* refresh thread holds, while the other caller waits for the manager's.
C16_Witness ==
    \E t, u \in Callers, w \in RefreshThreads :
        /\ Holds(t, "manager") /\ Wants(t, "strategy")
        /\ Holds(w, "strategy")
        /\ Wants(u, "manager")

----------------------------------------------------------------------------
(* Claims about reads after writes (SpecWB, SpecWT, SpecMgr).              *)

\* get(k) right after the write-back call r, with or without a miss
\* callback, whatever the write callbacks do.
WB_get_after(r, k, cb, fails) ==
    WB_get(strategy, r.queue, r.last_flush, r.ds,
           [store |-> r.store, meta |-> r.meta], enable_metadata, closed, k,
           cb, now, fails)

\* C17: whenever WriteBackStrategy.set(backend, k, v) returns true, a get of
\* k right after it returns v from the cache and calls no callback, also
\* while (k, v) waits in the write queue and whether the write callback
\* raises or not.
C17_ReadYourWrite ==
    \A k \in WBKeys, v \in WBValues :
        \A fails \in SUBSET (QueueKeys(_write_queue) \cup {k}) :
            LET r == WB_set(strategy, _write_queue, _last_flush, ds, Backend,
                            enable_metadata, closed, k, v, None, now, fails)
            IN r.ok /\ r.raised = "" =>
                   \A cb \in WBCallbacks, again \in {{}, WBKeys} :
                       LET g == WB_get_after(r, k, cb, again)
                       IN /\ g.value = v
                          /\ g.raised = ""
                          /\ g.calls = <<>>
                          /\ g.queue = r.queue

\* A set has just returned true, its write callback raised, the pair waits
\* in the queue, and get returns the value.
C17_Witness ==
    /\ last.op = "set" /\ last.ok
    /\ \E i \in 1..Len(last.calls) :
           last.calls[i] = <<"write_callback", last.key, "v2", "raised">>
    /\ [key |-> last.key, value |-> "v2"] \in QueueItems(_write_queue)
    /\ WB_get_after([queue |-> _write_queue, last_flush |-> _last_flush,
                      ds |-> ds, store |-> store, meta |-> meta],
                     last.key, None, {}).value = "v2"

----------------------------------------------------------------------------
(* Claims about the keys the callbacks receive (SpecMgr).                  *)

\* C18: under the default CacheConfig, CacheManager.get(k, miss_callback)
\* on a miss calls the miss callback exactly once with the key k of the
\* caller, and CacheManager.set(k, v) with a write-through strategy calls
\* the write callback exactly once with (k, v).
C18_CallbackSeesCallerKey ==
    config = DefaultConfig /\ ~closed =>
        \A k \in LogicalKeys :
            /\ strategy.kind = "cache_aside" =>
                   \A cb \in Callbacks \ {None} :
                       LET fk == _make_key(config, k)
                           miss == backend_get(Backend, enable_metadata, fk,
                                               now).result = NoValue
                           r == Manager_get(config, strategy, Backend,
                                            enable_metadata, closed, k, cb,
                                            now)
                       IN miss =>
                              r.calls = << <<"miss_callback", k, The(cb)>> >>
            /\ \A v \in Values :
                   LET s == [kind |-> "write_through", has_callback |-> TRUE]
                       r == WT_set(s, ds, Backend, enable_metadata, closed,
                                   _make_key(config, k), v,
                                   Manager_ttl(config, None), now, FALSE)
                   IN r.calls = << <<"write_callback", k, v, "ok">> >>

\* What the callbacks do receive: the key CacheManager._make_key built,
\* namespace and prefix included, and each callback is called exactly once.
C18_CallbackSeesFullKey ==
    ~closed =>
        \A k \in LogicalKeys :
            LET fk == _make_key(config, k)
            IN /\ strategy.kind = "cache_aside" =>
                      \A cb \in Callbacks \ {None} :
                          LET miss == backend_get(Backend, enable_metadata,
                                                  fk, now).result = NoValue
                              r == Manager_get(config, strategy, Backend,
                                               enable_metadata, closed, k,
                                               cb, now)
                          IN miss =>
                                 r.calls
                                     = << <<"miss_callback", fk, The(cb)>> >>
               /\ \A v \in Values :
                      LET s == [kind |-> "write_through",
                                has_callback |-> TRUE]
                          r == WT_set(s, ds, Backend, enable_metadata,
                                      closed, fk, v,
                                      Manager_ttl(config, None), now, FALSE)
                      IN r.calls = << <<"write_callback", fk, v, "ok">> >>

----------------------------------------------------------------------------
(* Claims about the reads of the write-through strategy (SpecWT).          *)

\* get(k, cb) of the write-through strategy gives what backend.get(k)
\* gives, leaves the backend as backend.get(k) leaves it and calls no
\* write callback.
WT_get_passes_through(k, cb, fail) ==
    LET g == backend_get(Backend, enable_metadata, k, now)
        r == WT_get(strategy, ds, Backend, enable_metadata, closed, k, cb,
                    now, fail)
    IN /\ r.raised = ""
       /\ r.value = g.result
       /\ r.store = g.store /\ r.meta = g.meta
       /\ r.ds = ds
       /\ \A i \in 1..Len(r.calls) : r.calls[i][1] # "write_callback"

\* C19: for every backend state and every key, WriteThroughStrategy.get
\* returns exactly what backend.get returns, writes nothing to the backend
\* and calls no write callback, with or without a miss callback.
C19_GetPassthrough ==
    ~closed =>
        \A k \in WTKeys, cb \in WTCallbacks, fail \in BOOLEAN :
            WT_get_passes_through(k, cb, fail)

\* What does hold: get is a passthrough on a hit, and on a miss when the
\* caller passes no miss callback.
C19_GetPassthroughWithoutMissCallback ==
    ~closed =>
        \A k \in WTKeys, cb \in WTCallbacks, fail \in BOOLEAN :
            \/ cb # None /\ backend_get(Backend, enable_metadata, k,
                                         now).result = NoValue
            \/ WT_get_passes_through(k, cb, fail)

----------------------------------------------------------------------------
(* Claims about the TTL strategy (SpecMgr).  The strategy is called on the *)
(* backend of every reachable state, with every default the constructor    *)
(* admits and every per-call ttl, the non-positive ones included.          *)

TTLDefaults == {None} \cup {Some(x) : x \in TTLs}
TTLCallTTLs == TTLDefaults \cup {Some(0), Some(0 - 1)}

\* The entry of k carries an expiry in the backend b.
HasExpiry(b, k) ==
    /\ k \in DOMAIN b.store
    /\ k \in DOMAIN b.meta
    /\ ~IsNone(b.meta[k].expires_at)

\* TTLStrategy.set raises and leaves the backend alone when the effective
\* ttl is absent or not positive, and else is backend.set with that ttl.
TTL_set_validates(d, k, v, ttl) ==
    LET effective_ttl == IF ~IsNone(ttl) THEN ttl ELSE d
        r == TTL_set(Backend, enable_metadata, closed, d, k, v, ttl, now)
        w == backend_set(Backend, enable_metadata, k, v, effective_ttl, now)
    IN IF IsNone(effective_ttl) \/ The(effective_ttl) <= 0
       THEN /\ r.raised = "StrategyError"
            /\ r.store = store /\ r.meta = meta
       ELSE ~closed =>
                /\ r.raised = "" /\ r.ok
                /\ r.store = w.store /\ r.meta = w.meta

\* A get that called the miss callback either wrote nothing or wrote the
\* value with the default ttl.
TTL_get_populates(d, k, cb) ==
    LET g == backend_get(Backend, enable_metadata, k, now)
        r == TTL_get(Backend, enable_metadata, closed, d, k, cb, now)
        w == backend_set(g, enable_metadata, k, The(cb), d, now)
    IN ~closed /\ r.calls # <<>> =>
           IF IsNone(d) \/ The(cb) = NoValue
           THEN r.store = g.store /\ r.meta = g.meta
           ELSE r.raised = "" /\ r.store = w.store /\ r.meta = w.meta

\* C20: TTLStrategy.set raises a validation error and leaves the backend
\* unchanged when the effective ttl is absent or <= 0, and else calls
\* backend.set with that positive ttl; so every entry the strategy writes,
\* by set or by the population of a miss in get, carries an expiry.
C20_UsableTTL ==
    \A d \in TTLDefaults, k \in FullKeys :
        /\ \A v \in Values, ttl \in TTLCallTTLs :
               LET r == TTL_set(Backend, enable_metadata, closed, d, k, v,
                                ttl, now)
               IN /\ TTL_set_validates(d, k, v, ttl)
                  /\ r.raised = "" => HasExpiry(r, k)
        /\ \A cb \in Callbacks \ {None} :
               LET r == TTL_get(Backend, enable_metadata, closed, d, k, cb,
                                now)
               IN /\ TTL_get_populates(d, k, cb)
                  /\ r.raised = "" /\ r.calls # <<>> /\ r.value # NoValue
                         => HasExpiry(r, k)

\* What does hold: the validation, the positive ttl handed to backend.set,
\* and the expiry of the entry on a backend that keeps metadata.
C20_UsableTTLReachesBackend ==
    \A d \in TTLDefaults, k \in FullKeys :
        /\ \A v \in Values, ttl \in TTLCallTTLs :
               LET r == TTL_set(Backend, enable_metadata, closed, d, k, v,
                                ttl, now)
               IN /\ TTL_set_validates(d, k, v, ttl)
                  /\ r.raised = "" /\ enable_metadata => HasExpiry(r, k)
        /\ \A cb \in Callbacks \ {None} :
               LET r == TTL_get(Backend, enable_metadata, closed, d, k, cb,
                                now)
               IN /\ TTL_get_populates(d, k, cb)
                  /\ r.raised = "" /\ r.calls # <<>> /\ r.value # NoValue
                         /\ enable_metadata
                         => HasExpiry(r, k)

----------------------------------------------------------------------------
(* Claims about the ttl and the key the manager hands on (SpecMgr).        *)

\* The per-call ttls of CacheManager.set, 0 included, and the managers'
\* default ttls.
ManagerCallTTLs == CallTTLs \cup {Some(0)}
ManagerConfigs ==
    {[config EXCEPT !.default_ttl = d] : d \in {None} \cup {Some(x) : x \in TTLs}}

\* CacheManager.set hands the strategy the ttl passed.
Manager_set_passes(cfg, key, v, ttl, passed) ==
    Manager_set(cfg, strategy, Backend, enable_metadata, closed, key, v, ttl,
                now)
        = Strategy_set(strategy, Backend, enable_metadata, closed,
                       _make_key(cfg, key), v, passed, now)

\* C21: CacheManager.set(k, v, ttl) passes the per-call ttl to the strategy
\* whenever the caller gave one, 0 included, and config.default_ttl only
\* when the call omits the ttl.
C21_DefaultTTLFallback ==
    strategy.kind # "none" =>
        \A cfg \in ManagerConfigs, key \in LogicalKeys, v \in Values,
           ttl \in ManagerCallTTLs :
            Manager_set_passes(cfg, key, v, ttl,
                               IF IsNone(ttl) THEN cfg.default_ttl ELSE ttl)

\* What does hold: the per-call ttl is passed when it is given and is not
\* 0, and config.default_ttl when it is omitted or 0.
C21_DefaultTTLFallbackOnFalsy ==
    strategy.kind # "none" =>
        \A cfg \in ManagerConfigs, key \in LogicalKeys, v \in Values,
           ttl \in ManagerCallTTLs :
            Manager_set_passes(cfg, key, v, ttl,
                               IF IsNone(ttl) \/ ttl = Some(0)
                               THEN cfg.default_ttl ELSE ttl)

\* Configurations with and without a namespace and a prefix, and the keys of
\* the callers, the empty key included.
NamespaceConfigs ==
    [namespace : {"", config.namespace}, key_prefix : {"", "app"},
     default_ttl : {None}]
NamespaceKeys == LogicalKeys \cup {""}

RECURSIVE JoinSegments(_)
JoinSegments(parts) ==
    IF parts = <<>> THEN ""
    ELSE IF Len(parts) = 1 THEN parts[1]
    ELSE parts[1] \o ":" \o JoinSegments(Tail(parts))

NonEmptySegments(parts) == SelectSeq(parts, LAMBDA p : p # "")

\* get, set, delete and exists of the manager with configuration cfg, called
\* with key, do what the strategy (the backend, for exists) does at fk.
Manager_hands(cfg, key, fk) ==
    /\ \A cb \in {None, Some("v1")} :
           Manager_get(cfg, strategy, Backend, enable_metadata, closed, key,
                       cb, now)
               = Strategy_get(strategy, Backend, enable_metadata, closed, fk,
                              cb, now)
    /\ Manager_set(cfg, strategy, Backend, enable_metadata, closed, key,
                   "v1", Some(1), now)
           = Strategy_set(strategy, Backend, enable_metadata, closed, fk,
                          "v1", Some(1), now)
    /\ Manager_delete(cfg, strategy, Backend, enable_metadata, closed, key)
           = Strategy_delete(strategy, Backend, enable_metadata, closed, fk)
    /\ Manager_exists(cfg, Backend, enable_metadata, closed, key, now)
           = Checked_exists(Backend, enable_metadata, closed, fk, now)

\* Every key of the backend of a manager starts with the namespace and the
\* prefix of its configuration.
Namespaced ==
    \A fk \in DOMAIN store :
        \E key \in LogicalKeys :
            fk = JoinSegments(NonEmptySegments(<<config.namespace,
                                                 config.key_prefix>>)
                              \o <<key>>)

\* C22 as stated: the key the manager hands on is the ':'-join of the
\* non-empty ones of namespace, key_prefix and str(key), in that order, and
\* every key the manager wrote starts with the namespace and the prefix.
C22_Namespacing ==
    strategy.kind # "none" =>
        /\ \A cfg \in NamespaceConfigs, key \in NamespaceKeys :
               Manager_hands(cfg, key,
                             JoinSegments(NonEmptySegments(
                                 <<cfg.namespace, cfg.key_prefix, key>>)))
        /\ Namespaced

\* C22: the key the manager hands on is the ':'-join of the non-empty ones
\* of namespace and key_prefix, in that order, and of str(key), which is
\* always a segment, also when it is empty; every key the manager wrote
\* starts with the namespace and the prefix.
C22_NamespacingKeyAlwaysJoined ==
    strategy.kind # "none" =>
        /\ \A cfg \in NamespaceConfigs, key \in NamespaceKeys :
               Manager_hands(cfg, key,
                             JoinSegments(NonEmptySegments(
                                 <<cfg.namespace, cfg.key_prefix>>)
                                 \o <<key>>))
        /\ Namespaced

\* The manager of namespace "test" and prefix "app" has just set the key
\* "a", which the backend holds as "test:app:a".
C22_Witness ==
    /\ config.namespace = "test" /\ config.key_prefix = "app"
    /\ last.op = "set" /\ last.ok /\ last.key = "test:app:a"
    /\ "test:app:a" \in DOMAIN store

----------------------------------------------------------------------------
(* Claims about the cache-aside strategy (SpecMgr).                        *)

\* CacheAsideStrategy.get(backend, k, cb) on the backend of this state, and
\* get(backend, k) without callback after it, at time t.
CA_get(k, cb) ==
    CacheAside_get(Backend, enable_metadata, closed, k, cb, now)
CA_get_after(r, k, t) ==
    CacheAside_get([store |-> r.store, meta |-> r.meta], enable_metadata,
                   closed, k, None, t)

\* C23: CacheAsideStrategy.get(backend, k, miss_callback) on a miss calls the
\* callback once; if it returns a value v, the backend then holds k -> v
\* with no expiry, v is returned and a following get(backend, k) without
\* callback returns v and calls no callback; if it returns absent, nothing is
\* written and absent is returned.  On a hit the callback is not called.
C23_Population ==
    strategy.kind = "cache_aside" =>
        \A k \in FullKeys, cb \in Callbacks \ {None} :
            LET g == backend_get(Backend, enable_metadata, k, now)
                r == CA_get(k, cb)
                v == The(cb)
            IN /\ r.raised = ""
               /\ g.result # NoValue => r.calls = <<>> /\ r.value = g.result
               /\ g.result = NoValue =>
                      /\ r.calls = << <<"miss_callback", k, v>> >>
                      /\ r.value = v
                      /\ v = NoValue
                             => r.store = g.store /\ r.meta = g.meta
                      /\ v # NoValue =>
                             /\ k \in DOMAIN r.store /\ r.store[k] = v
                             /\ k \in DOMAIN r.meta
                                    => IsNone(r.meta[k].expires_at)
                             /\ \A t \in now..(now + 2) :
                                    /\ CA_get_after(r, k, t).value = v
                                    /\ CA_get_after(r, k, t).calls = <<>>

\* A get has just missed, called the callback and stored what it returned.
C23_Witness ==
    /\ strategy.kind = "cache_aside"
    /\ last.op = "get" /\ last.value = "v1"
    /\ last.calls = << <<"miss_callback", last.key, "v1">> >>
    /\ last.key \in DOMAIN store /\ store[last.key] = "v1"

----------------------------------------------------------------------------
(* Claims about the lifecycle of the metadata records (SpecMgr).           *)

\* The keys with a metadata record after the backend call r are the keys of
\* the store after it, and are the keys recs.
RecordsAfter(r, recs) ==
    /\ DOMAIN r.meta = DOMAIN r.store
    /\ DOMAIN r.meta = recs

\* C24: with metadata enabled, after every operation of a single-threaded
\* sequence of set, get, exists, delete and clear, with clock advance and
\* lazy expiry, the keys with a metadata record are the keys of the store:
\* set creates the record of its key when there is none, and a record is
\* destroyed exactly by delete of its key, by clear, and by get or exists of
\* its key once it has expired.
C24_MetadataLifecycle ==
    enable_metadata =>
        /\ DOMAIN meta = DOMAIN store
        /\ RecordsAfter(backend_clear(Backend, enable_metadata), {})
        /\ \A k \in FullKeys :
               LET expired == _is_expired(Backend, enable_metadata, k, now)
                   lapsed == IF expired THEN {k} ELSE {}
               IN /\ \A v \in Values, ttl \in CallTTLs :
                         RecordsAfter(backend_set(Backend, enable_metadata, k,
                                                  v, ttl, now),
                                      DOMAIN meta \cup {k})
                  /\ RecordsAfter(backend_get(Backend, enable_metadata, k,
                                              now),
                                  DOMAIN meta \ lapsed)
                  /\ RecordsAfter(backend_exists(Backend, enable_metadata, k,
                                                 now),
                                  DOMAIN meta \ lapsed)
                  /\ RecordsAfter(backend_delete(Backend, enable_metadata, k),
                                  DOMAIN meta \ {k})

\* A get or exists of the backend has just found its key expired and has
\* destroyed its record with the entry, while another key keeps its record.
C24_Witness ==
    /\ enable_metadata /\ strategy.kind = "none"
    /\ last.op \in {"backend.get", "backend.exists"}
    /\ last.key \in DOMAIN expect /\ Expired(expect, last.key, now)
    /\ last.key \notin DOMAIN meta \cup DOMAIN store
    /\ DOMAIN meta # {}

----------------------------------------------------------------------------
(* SpecClear: one thread calls set and clear on one strategy of any class  *)
(* and one MemoryBackend; the refresh-ahead strategy also serves get, and  *)
(* its refresh thread runs, on a MemoryBackend(enable_metadata=False) as   *)
(* in SpecRA.                                                              *)

ClearKeys == {"a", "b"}
BaseKinds == {"cache_aside", "ttl", "read_through", "write_through"}
EvictKinds == {"lru", "lfu", "fifo"}

ClearStrategies ==
    { [kind |-> "cache_aside", default_ttl |-> None],
      [kind |-> "ttl", default_ttl |-> Some(1)],
      [kind |-> "read_through", has_callback |-> TRUE],
      [kind |-> "write_through", has_callback |-> TRUE],
      [kind |-> "write_back", has_callback |-> TRUE,
       batch_size |-> MaxBatch, flush_interval |-> 1],
      [kind |-> "refresh_ahead", has_refresh |-> TRUE] }
    \cup [kind : EvictKinds, max_size : {MaxSize}]

InitClear ==
    /\ InitBackend
    /\ InitStrategy
    /\ config = DefaultConfig
    /\ strategy \in ClearStrategies
    /\ strategy.kind = "refresh_ahead" => ~enable_metadata
    /\ pc = IF strategy.kind = "refresh_ahead" THEN <<"idle">> ELSE <<>>

\* ReadThroughStrategy.set and clear, which are those of BaseStrategy.
RT_Set(k, v) ==
    /\ Done("set", k, Base_set(Backend, enable_metadata, closed, k, v, None,
                               now))
    /\ UNCHANGED expect

RT_Clear ==
    /\ Done("clear", "", Base_clear(Backend, enable_metadata, closed))
    /\ UNCHANGED expect

NextClear ==
    \/ strategy.kind # "refresh_ahead" /\ Tick
    \/ \E k \in LogicalKeys, v \in Values, ttl \in CallTTLs :
           strategy.kind \in {"cache_aside", "ttl"} /\ M_Set(k, v, ttl)
    \/ strategy.kind \in {"cache_aside", "ttl"} /\ M_Clear
    \/ \E k \in ClearKeys, v \in Values :
           strategy.kind = "read_through" /\ RT_Set(k, v)
    \/ strategy.kind = "read_through" /\ RT_Clear
    \/ \E k \in WTKeys, v \in WTValues, fail \in BOOLEAN :
           strategy.kind = "write_through" /\ T_Set(k, v, None, fail)
    \/ strategy.kind = "write_through" /\ T_Clear
    \/ \E k \in WBKeys, v \in WBValues :
           strategy.kind = "write_back" /\ W_Set(k, v)
    \/ strategy.kind = "write_back" /\ W_Clear
    \/ \E k \in ClearKeys, v \in EvValues :
           strategy.kind \in EvictKinds /\ E_Set(k, v, None)
    \/ strategy.kind \in EvictKinds /\ E_Clear
    \/ strategy.kind = "refresh_ahead" /\ NextRA

SpecClear == InitClear /\ [][NextClear]_vars

----------------------------------------------------------------------------
(* Claims about clear (SpecClear).                                         *)

\* What clear of a strategy without a thread may change: the backend, the
\* shadow index and the write queue.
ClearState(b, ao, ac, io, q, lf, d) ==
    [store |-> b.store, meta |-> b.meta, access_order |-> ao,
     access_counts |-> ac, insertion_order |-> io, queue |-> q,
     last_flush |-> lf, ds |-> d]

StateNow ==
    ClearState(Backend, access_order, access_counts, insertion_order,
               _write_queue, _last_flush, ds)

\* clear(backend) of a strategy that runs on the caller's thread alone,
\* called in this state at time t, the write callback raising for the keys
\* in fails: what it returned, the callbacks it called and the state it
\* left.
Strategy_clear_now(t, fails) ==
    CASE strategy.kind \in BaseKinds ->
             LET r == Base_clear(Backend, enable_metadata, closed)
             IN [ok |-> r.ok, raised |-> r.raised, calls |-> r.calls,
                 state |-> [StateNow EXCEPT !.store = r.store,
                                            !.meta = r.meta]]
      [] strategy.kind \in EvictKinds ->
             LET r == Evict_clear(strategy, Index, Backend, enable_metadata,
                                  closed)
             IN [ok |-> r.ok, raised |-> r.raised, calls |-> r.calls,
                 state |-> [StateNow EXCEPT
                               !.store = r.store, !.meta = r.meta,
                               !.access_order =
                                   IF strategy.kind = "lru" THEN r.index
                                   ELSE @,
                               !.access_counts =
                                   IF strategy.kind = "lfu" THEN r.index
                                   ELSE @,
                               !.insertion_order =
                                   IF strategy.kind = "fifo" THEN r.index
                                   ELSE @]]
      [] strategy.kind = "write_back" ->
             LET r == WB_clear(_write_queue, _last_flush, ds, Backend,
                               enable_metadata, closed, t, fails)
             IN [ok |-> r.ok, raised |-> r.raised, calls |-> r.calls,
                 state |-> [StateNow EXCEPT
                               !.store = r.store, !.meta = r.meta,
                               !.queue = r.queue,
                               !.last_flush = r.last_flush, !.ds = r.ds]]

\* clear has just returned and the thread is back in the application.
JustCleared ==
    /\ last.op = "clear" /\ last.raised = ""
    /\ strategy.kind = "refresh_ahead" => pc[1] = "idle"

\* The application's thread takes a step of RefreshAheadStrategy.clear:
\* "_running = False", the join, _refresh_times.clear() or backend.clear().
InClear(p) == p[1] \in {"joining", "emptying", "clearing"}
ClearStepTaken == pc' # pc /\ (InClear(pc) \/ InClear(pc'))

\* A step of a clear of the refresh-ahead strategy that was called right
\* after a clear returned: since that return the application has called
\* nothing and no refresh thread has used the backend or stamped a key
\* (each of these writes last).
SecondClearStep ==
    /\ strategy.kind = "refresh_ahead"
    /\ last.op = "clear" /\ last.raised = ""
    /\ ClearStepTaken

\* The step changes nothing, and the call it ends returns true without a
\* callback.
NoOpStep ==
    /\ store' = store /\ meta' = meta
    /\ _refresh_times' = _refresh_times
    /\ _running' = _running
    /\ pc'[1] = "idle" =>
           last'.ok /\ last'.raised = "" /\ last'.calls = <<>>

\* The second of two clears in a row of a strategy that runs on the caller's
\* thread alone changes nothing and calls no callback.
C25_SecondClearNoOp ==
    JustCleared /\ strategy.kind # "refresh_ahead" =>
        /\ last.ok
        /\ \A fails \in SUBSET QueueKeys(_write_queue), t \in {now, now + 1} :
               LET r == Strategy_clear_now(t, fails)
               IN /\ r.ok /\ r.raised = ""
                  /\ r.calls = <<>>
                  /\ r.state = StateNow

C25_SecondClearOnceFlushed ==
    JustCleared /\ strategy.kind # "refresh_ahead" =>
        /\ last.ok
        /\ store = Empty
        /\ \A fails \in SUBSET QueueKeys(_write_queue), t \in {now, now + 1} :
               LET r == Strategy_clear_now(t, fails)
               IN /\ r.ok /\ r.raised = ""
                  /\ r.state.store = store /\ r.state.meta = meta
                  /\ _write_queue = <<>> => r.calls = <<>> /\ r.state = StateNow
                  /\ Len(r.calls) = Len(_write_queue)
                  /\ \A i \in 1..Len(r.calls) :
                         /\ r.calls[i][1] = "write_callback"
                         /\ r.calls[i][2] = _write_queue[i].key

\* The refresh-ahead strategy: every clear that returns without an exception
\* returns true, has called no callback and leaves the backend empty and
\* _running false, and the refresh tracking empty if no refresh thread was
\* ever started.
C25_RefreshAheadReturn ==
    JustCleared /\ strategy.kind = "refresh_ahead" =>
        /\ last.ok /\ last.calls = <<>>
        /\ store = Empty
        /\ ~_running
        /\ workers = <<>> => _refresh_times = <<>>

C25_WitnessWriteBack ==
    /\ JustCleared /\ strategy.kind = "write_back"
    /\ _write_queue # <<>>
    /\ store = Empty

\* A second clear in a row of the refresh-ahead strategy is about to empty
\* the refresh tracking, in which a refresh in flight during the first left
\* its key.
C25_WitnessTrackedAfterClear ==
    /\ strategy.kind = "refresh_ahead"
    /\ last.op = "clear" /\ last.raised = ""
    /\ pc[1] = "emptying"
    /\ _refresh_times # <<>>

----------------------------------------------------------------------------
(* Claims about the flushes of the write-back strategy (SpecWB).           *)

\* set(k, v) in this state, the write callback raising for the keys fails.
WB_set_now(k, v, fails) ==
    WB_set(strategy, _write_queue, _last_flush, ds, Backend, enable_metadata,
           closed, k, v, None, now, fails)

\* C26: with a write callback configured, a set that brings the queue to at
\* least batch_size entries, or that happens when now - last_flush >=
\* flush_interval, flushes the whole queue before it returns, and another
\* set flushes nothing; so with a callback that does not fail the queue holds
\* fewer than batch_size entries after every set.
C26_FlushTrigger ==
    strategy.has_callback =>
        \A k \in WBKeys, v \in {"v2"} :
            LET q == QueuePut(_write_queue, k, v)
                due == \/ Len(q) >= strategy.batch_size
                       \/ now - _last_flush >= strategy.flush_interval
            IN \A fails \in SUBSET QueueKeys(q) :
                   LET r == WB_set_now(k, v, fails)
                   IN /\ r.ok /\ r.raised = ""
                      /\ due =>
                             /\ r.calls = WriteCalls(q, fails)
                             /\ QueueItems(r.queue)
                                    = {e \in QueueItems(q) : e.key \in fails}
                             /\ r.last_flush = now
                      /\ ~due =>
                             /\ r.calls = <<>>
                             /\ r.queue = q
                             /\ r.last_flush = _last_flush
                      /\ fails = {} => Len(r.queue) < strategy.batch_size

\* A set has just flushed a queue shorter than batch_size, because the flush
\* interval had passed.
C26_Witness ==
    /\ strategy.has_callback /\ strategy.batch_size = 2
    /\ last.op = "set" /\ Len(last.calls) = 1
    /\ last.calls[1] = <<"write_callback", last.key, store[last.key], "ok">>
    /\ _write_queue = <<>>
    /\ _last_flush = now /\ now > 0

\* C27: one flush calls the write callback exactly once for each entry of
\* the queue as it is when the flush starts, also after a callback raised;
\* when it ends the queue holds exactly the entries whose callback raised,
\* with their values, and the flush is over after that one pass, also when
\* every callback raises.  The backend is not touched.
C27_PartialFailure ==
    \A fails \in SUBSET QueueKeys(_write_queue) :
        LET r == WB_flush(_write_queue, _last_flush, ds, Backend, now, fails)
        IN /\ r.raised = ""
           /\ Len(r.calls) = Len(_write_queue)
           /\ \A i \in 1..Len(_write_queue) :
                  r.calls[i] = <<"write_callback", _write_queue[i].key,
                                 _write_queue[i].value,
                                 IF _write_queue[i].key \in fails
                                 THEN "raised" ELSE "ok">>
           /\ QueueItems(r.queue)
                  = {e \in QueueItems(_write_queue) : e.key \in fails}
           /\ Len(r.queue) = Cardinality(fails)
           /\ r.store = store /\ r.meta = meta

\* A flush of two entries has just ended: the callback raised for the first
\* and was still called for the second, and only the first is queued again.
C27_Witness ==
    /\ last.op = "flush" /\ Len(last.calls) = 2
    /\ last.calls[1][4] = "raised" /\ last.calls[2][4] = "ok"
    /\ Len(_write_queue) = 1
    /\ _write_queue[1].key = last.calls[1][2]
    /\ _write_queue[1].value = last.calls[1][3]

\* C28: clear calls the write callback for every entry that is pending when
\* it is called, and does so before it clears the backend (on a closed
\* backend the callbacks have run when backend.clear raises); after clear
\* has returned the backend is empty and the queue holds only the entries
\* whose write failed in that flush.
C28_ClearFlushesFirst ==
    \A fails \in SUBSET QueueKeys(_write_queue) :
        LET r == WB_clear(_write_queue, _last_flush, ds, Backend,
                          enable_metadata, FALSE, now, fails)
            c == WB_clear(_write_queue, _last_flush, ds, Backend,
                          enable_metadata, TRUE, now, fails)
            failed == {e \in QueueItems(_write_queue) : e.key \in fails}
        IN /\ r.raised = "" /\ r.ok
           /\ r.calls = WriteCalls(_write_queue, fails)
           /\ r.store = Empty
           /\ enable_metadata => r.meta = Empty
           /\ QueueItems(r.queue) = failed
           /\ c.raised = "BackendError"
           /\ c.calls = WriteCalls(_write_queue, fails)
           /\ QueueItems(c.queue) = failed
           /\ c.store = store

\* clear has just returned: it called the callback for both pending entries,
\* one write failed and is still queued, and the backend is empty.
C28_Witness ==
    /\ last.op = "clear" /\ last.ok /\ Len(last.calls) = 2
    /\ \E i, j \in 1..2 :
           last.calls[i][4] = "raised" /\ last.calls[j][4] = "ok"
    /\ store = Empty
    /\ Len(_write_queue) = 1
    /\ \E i \in 1..2 : /\ last.calls[i][4] = "raised"
                       /\ last.calls[i][2] = _write_queue[1].key

----------------------------------------------------------------------------
(* SpecStop: SpecRA with one key.                                           *)

StopKeys == {"a"}

NextStop ==
    \/ R_Tick
    \/ AppStep(StopKeys, MaxWorkers)
    \/ WorkerStep

SpecStop == InitRA /\ [][NextStop]_vars

\* The refresh threads are scheduled and their callbacks return: a thread
\* that can take a step takes one.
SpecStopFair == SpecStop /\ WF_vars(WorkerStep)

----------------------------------------------------------------------------
(* Claims about stopping the refresh thread (SpecStop)                      *)

\* clear has just returned.
ClearReturned == last.op = "clear" /\ pc[1] = "idle"

\* C29: when RefreshAheadStrategy.clear returns, _running is false and
\* _refresh_times is empty.  Violated: the join gives up after a second while
\* a refresh callback runs, and the thread then assigns _refresh_times[key]
\* between _refresh_times.clear() and the return of backend.clear().
C29_ShutdownOnClear ==
    ClearReturned => ~_running /\ _refresh_times = <<>>

\* What holds: when clear returns _running is false, and _refresh_times is
\* empty when no refresh thread was ever started.
C29_ShutdownOnClearWithoutThread ==
    ClearReturned => ~_running /\ (workers = <<>> => _refresh_times = <<>>)

\* What holds of the thread: once _running is false the refresh threads end,
\* unless a get starts a thread again.
C29_WorkerLeavesLoop ==
    (~_running /\ pc[1] = "idle") ~> (Alive = {} \/ _running)

----------------------------------------------------------------------------
(* Claims about one iteration of the refresh thread (SpecRA)                *)

\* What refresh_callback does for a key: it returns a value or None, or it
\* raises.
RefreshRaises == "raise"
RefreshOutcomes == [RAKeys -> RefreshValues \cup {RefreshRaises}]

\* _refresh_expiring_keys, the for loop over the keys listed, r being the
\* state so far and out[k] what refresh_callback does for k.  An exception is
\* caught inside the loop and the key is left as it was; with stop the
\* exception ends the loop.
RECURSIVE RefreshKeys(_, _, _, _, _, _, _)
RefreshKeys(keys, r, em, cl, out, t, stop) ==
    IF keys = <<>> THEN r
    ELSE LET k == Head(keys)
             o == out[k]
             x == RA_refresh_key(r.refresh_times, r, em, cl, k,
                                 IF o = RefreshRaises THEN NoValue ELSE o, t)
             called == x.calls # <<>>
             n == [store |-> x.store, meta |-> x.meta,
                   refresh_times |-> x.refresh_times,
                   calls |-> IF called
                             THEN Append(r.calls, <<"refresh_callback", k, o>>)
                             ELSE r.calls]
         IN IF stop /\ called /\ o = RefreshRaises THEN n
            ELSE RefreshKeys(Tail(keys), n, em, cl, out, t, stop)

\* An iteration that one raising callback ends.
_refresh_expiring_keys_one_try(s, rt, b, em, cl, out, t) ==
    LET r == [store |-> b.store, meta |-> b.meta, refresh_times |-> rt,
              calls |-> <<>>]
    IN IF ~s.has_refresh THEN r
       ELSE RefreshKeys([j \in 1..Len(rt) |-> rt[j].key], r, em, cl, out, t,
                        TRUE)

\* RefreshAheadStrategy._refresh_expiring_keys: one iteration of the thread.
_refresh_expiring_keys(s, rt, b, em, cl, out, t) ==
    LET r == [store |-> b.store, meta |-> b.meta, refresh_times |-> rt,
              calls |-> <<>>]
    IN IF ~s.has_refresh THEN r
       ELSE RefreshKeys([j \in 1..Len(rt) |-> rt[j].key], r, em, cl, out, t,
                        FALSE)

\* The backend after the keys of gone have left it behind the strategy's back
\* (they expired, or another user of the backend deleted them).
RECURSIVE BackendWithout(_, _, _)
BackendWithout(b, em, gone) ==
    IF gone = {} THEN b
    ELSE LET k == CHOOSE x \in gone : TRUE
             d == backend_delete(b, em, k)
         IN BackendWithout([store |-> d.store, meta |-> d.meta], em,
                           gone \ {k})

RefreshNow(b, out) ==
    _refresh_expiring_keys(strategy, _refresh_times, b, enable_metadata,
                           closed, out, now)

\* A refresh thread is at the end of its sleep: an iteration starts.
IterationStarts ==
    /\ strategy.has_refresh
    /\ \E i \in 1..Len(workers) : workers[i].at = "sleep"

\* The calls of refresh_callback for k in an iteration.
RefreshCalls(r, k) == {i \in 1..Len(r.calls) : r.calls[i][2] = k}

\* C30: in the iteration of the refresh thread that starts, with the backend
\* as it is or with some keys gone from it, every tracked key that is in
\* the backend and whose callback returns a value gets that value and the
\* time of the refresh, whatever the callback does for the other keys (it
\* may raise); the callback is called once for a tracked key that is in the
\* backend and not at all for one that is not, which stays absent and keeps
\* its place in _refresh_times.
C30_PerKeyIsolation ==
    IterationStarts =>
        \A out \in RefreshOutcomes, gone \in SUBSET RAKeys :
            LET b == BackendWithout(Backend, enable_metadata, gone)
                r == RefreshNow(b, out)
            IN \A k \in QueueKeys(_refresh_times) :
                  LET present == backend_exists(b, enable_metadata, k,
                                                now).result
                      before == {e \in QueueItems(_refresh_times) : e.key = k}
                  IN /\ present => Cardinality(RefreshCalls(r, k)) = 1
                     /\ present /\ out[k] \notin {NoValue, RefreshRaises} =>
                           /\ k \in DOMAIN r.store
                           /\ r.store[k] = out[k]
                           /\ [key |-> k, value |-> now]
                                 \in QueueItems(r.refresh_times)
                     /\ present /\ out[k] \in {NoValue, RefreshRaises} =>
                           /\ r.store[k] = store[k]
                           /\ before \subseteq QueueItems(r.refresh_times)
                     /\ ~present =>
                           /\ RefreshCalls(r, k) = {}
                           /\ k \notin DOMAIN r.store
                           /\ before \subseteq QueueItems(r.refresh_times)

\* Two keys are tracked and in the backend, the callback raises for the
\* first and returns a value for the second, which is refreshed; with the
\* first key gone from the backend only the second is called for.
C30_Witness ==
    /\ IterationStarts
    /\ Len(_refresh_times) = 2
    /\ \A k \in RAKeys :
          backend_exists(Backend, enable_metadata, k, now).result
    /\ \A e \in QueueItems(_refresh_times) : e.value < now
    /\ LET first == _refresh_times[1].key
           second == _refresh_times[2].key
           out == [k \in RAKeys |-> IF k = first THEN RefreshRaises ELSE "v2"]
           r == RefreshNow(Backend, out)
           g == RefreshNow(BackendWithout(Backend, enable_metadata, {first}),
                           out)
       IN /\ r.store[first] = store[first]
          /\ r.store[second] = "v2"
          /\ r.calls = << <<"refresh_callback", first, RefreshRaises>>,
                          <<"refresh_callback", second, "v2">> >>
          /\ DOMAIN g.store = {second}
          /\ g.calls = << <<"refresh_callback", second, "v2">> >>

----------------------------------------------------------------------------
(* ReadThroughStrategy (strategies/read_through.py).  cb is the per-call    *)
(* miss callback, None or Some(o), and rc what the configured read callback *)
(* does, o being the value or None it returns, or CallbackRaises.  shut     *)
(* says that the backend is closed while the callback runs (by the callback *)
(* or by another thread), so that the write that follows fails.             *)

CallbackRaises == "raise"
ReadFailed == "RuntimeError: Failed to read from data store"

RTRet(r, cl) ==
    [store |-> r.store, meta |-> r.meta, value |-> r.value, ok |-> r.ok,
     raised |-> r.raised, calls |-> r.calls, closed |-> cl]

\* A get that lets the failure of the backend write through as it is.
RT_get_write_outside_try(s, b, em, cl, k, cb, rc, shut, t) ==
    IF cl THEN RTRet(Raise(b, _check_closed(cl), <<>>), cl)
    ELSE LET g == backend_get(b, em, k, t)
             name == IF ~IsNone(cb) THEN "miss_callback" ELSE "read_callback"
             o == IF ~IsNone(cb) THEN The(cb) ELSE rc
             calls == << <<name, k, o>> >>
             c == [store |-> g.store,
                   meta |-> IF shut THEN _clear_metadata(g, em) ELSE g.meta]
         IN IF g.result # NoValue \/ (IsNone(cb) /\ ~s.has_callback)
            THEN RTRet(Ret(g, g.result, FALSE, <<>>), cl)
            ELSE IF o = CallbackRaises
            THEN RTRet(Raise(c, ReadFailed, calls), shut)
            ELSE IF o = NoValue
            THEN RTRet(Ret(c, NoValue, FALSE, calls), shut)
            ELSE IF shut
            THEN RTRet(Raise(c, _check_closed(shut), calls), shut)
            ELSE RTRet(Ret(backend_set(c, em, k, o, None, t), o, FALSE, calls),
                       shut)

\* ReadThroughStrategy.get: the callback and the backend write that follows
\* it are in one try block, whose except clause raises the RuntimeError.
RT_get(s, b, em, cl, k, cb, rc, shut, t) ==
    IF cl THEN RTRet(Raise(b, _check_closed(cl), <<>>), cl)
    ELSE LET g == backend_get(b, em, k, t)
             name == IF ~IsNone(cb) THEN "miss_callback" ELSE "read_callback"
             o == IF ~IsNone(cb) THEN The(cb) ELSE rc
             calls == << <<name, k, o>> >>
             c == [store |-> g.store,
                   meta |-> IF shut THEN _clear_metadata(g, em) ELSE g.meta]
         IN IF g.result # NoValue \/ (IsNone(cb) /\ ~s.has_callback)
            THEN RTRet(Ret(g, g.result, FALSE, <<>>), cl)
            ELSE IF o = CallbackRaises
            THEN RTRet(Raise(c, ReadFailed, calls), shut)
            ELSE IF o = NoValue
            THEN RTRet(Ret(c, NoValue, FALSE, calls), shut)
            ELSE IF shut
            THEN RTRet(Raise(c, ReadFailed, calls), shut)
            ELSE RTRet(Ret(backend_set(c, em, k, o, None, t), o, FALSE, calls),
                       shut)

----------------------------------------------------------------------------
(* SpecRT: one thread calls one ReadThroughStrategy on one MemoryBackend,   *)
(* which may be closed, also while a callback runs.                         *)

RTKeys == {"a", "b"}
RTOutcomes == {"v1", NoValue, CallbackRaises}
RTTTLs == {Some(1), Some(2)}
RTCallbacks == {None} \cup {Some(o) : o \in RTOutcomes}

ReadThroughStrategies == [kind : {"read_through"}, has_callback : BOOLEAN]

InitRT ==
    /\ InitBackend
    /\ InitStrategy
    /\ pc = <<>>
    /\ config = DefaultConfig
    /\ strategy \in ReadThroughStrategies

RT_Get(k, cb, rc, shut) ==
    LET r == RT_get(strategy, Backend, enable_metadata, closed, k, cb, rc,
                    shut, now)
    IN /\ CanRead(Backend, k)
       /\ store' = r.store
       /\ meta' = r.meta
       /\ closed' = r.closed
       /\ last' = Call("get", k, r)
       /\ UNCHANGED <<enable_metadata, now, config, strategy, expect,
                      strategyVars>>

\* ReadThroughStrategy.set with a ttl.
RT_SetTTL(k, v, ttl) ==
    /\ Done("set", k, Base_set(Backend, enable_metadata, closed, k, v, ttl,
                               now))
    /\ UNCHANGED expect

\* ReadThroughStrategy.delete, which is that of BaseStrategy.
RT_Delete(k) ==
    /\ Done("delete", k, Base_delete(Backend, enable_metadata, closed, k))
    /\ UNCHANGED expect

NextRT ==
    \/ Tick
    \/ \E k \in RTKeys, cb \in RTCallbacks, rc \in RTOutcomes,
          shut \in BOOLEAN : RT_Get(k, cb, rc, shut)
    \/ \E k \in RTKeys, v \in Values : RT_Set(k, v)
    \/ \E k \in RTKeys, v \in Values, ttl \in RTTTLs : RT_SetTTL(k, v, ttl)
    \/ \E k \in RTKeys : RT_Delete(k)
    \/ RT_Clear
    \/ T_Close

SpecRT == InitRT /\ [][NextRT]_vars

----------------------------------------------------------------------------
(* Claims about the errors of the read-through get (SpecRT)                 *)

\* The callback that a get of k calls in the state reached: the per-call
\* one, else the configured one, when the key is a miss.
RTCalled(k, cb) ==
    /\ ~closed
    /\ backend_get(Backend, enable_metadata, k, now).result = NoValue
    /\ ~IsNone(cb) \/ strategy.has_callback

\* C31: ReadThroughStrategy.get calls the per-call miss_callback if given and
\* else the configured read callback, and raises the "failed to read from data
\* store" error if and only if that callback raised; a failure of the backend,
\* that of the write after a successful read included, is not reported so.
\* Violated: the backend write is inside the try block of the callback.
C31_ReadErrorDistinction ==
    \A k \in RTKeys, cb \in RTCallbacks, rc \in RTOutcomes, shut \in BOOLEAN :
        LET r == RT_get(strategy, Backend, enable_metadata, closed, k, cb, rc,
                        shut, now)
            o == IF ~IsNone(cb) THEN The(cb) ELSE rc
        IN /\ RTCalled(k, cb) =>
                 r.calls = << <<IF ~IsNone(cb) THEN "miss_callback"
                                ELSE "read_callback", k, o>> >>
           /\ ~RTCalled(k, cb) => r.calls = <<>>
           /\ r.raised = ReadFailed <=> RTCalled(k, cb) /\ o = CallbackRaises

\* What holds: the error is raised if and only if the callback raised or the
\* backend write that follows a successful read failed; a backend that is
\* closed before the get raises BackendError.
C31_ReadErrorOnCallbackOrWrite ==
    \A k \in RTKeys, cb \in RTCallbacks, rc \in RTOutcomes, shut \in BOOLEAN :
        LET r == RT_get(strategy, Backend, enable_metadata, closed, k, cb, rc,
                        shut, now)
            o == IF ~IsNone(cb) THEN The(cb) ELSE rc
        IN /\ RTCalled(k, cb) =>
                 r.calls = << <<IF ~IsNone(cb) THEN "miss_callback"
                                ELSE "read_callback", k, o>> >>
           /\ ~RTCalled(k, cb) => r.calls = <<>>
           /\ r.raised = ReadFailed <=>
                 /\ RTCalled(k, cb)
                 /\ o = CallbackRaises \/ (o # NoValue /\ shut)
           /\ closed => r.raised = "BackendError"

----------------------------------------------------------------------------
(* Claims about delete and clear of the eviction strategies (SpecEvict)     *)

\* C32: after delete(backend, k) of LRU, LFU or FIFO has returned, whatever
\* its result, k is in neither the backend nor the shadow index; after
\* clear(backend) has returned both are empty.  Violated: the index is only
\* updated when backend.delete returns True, so a key that lazy expiry took
\* out of the backend stays in the index after the delete.
C32_DeleteClearSynchronized ==
    /\ last.op = "delete" /\ last.raised = "" =>
          last.key \notin DOMAIN store /\ last.key \notin IndexKeys
    /\ last.op = "clear" /\ last.raised = "" =>
          store = Empty /\ IndexKeys = {}

\* What holds: a delete that returns True leaves k in neither, a delete that
\* returns False leaves k out of the backend, and clear empties both.
C32_DeleteTrueSynchronized ==
    /\ last.op = "delete" /\ last.raised = "" =>
          /\ last.key \notin DOMAIN store
          /\ last.ok => last.key \notin IndexKeys
    /\ last.op = "clear" /\ last.raised = "" =>
          store = Empty /\ IndexKeys = {}

----------------------------------------------------------------------------------------------------------------------------------------
(* Claims about the eviction of set (SpecOrder)                             *)

\* C33: set(backend, k, v) of LRU, LFU and FIFO evicts exactly one key, which
\* was in the index before k, if and only if k is not in the index and the
\* index is full (it holds max_size keys or more); otherwise no key leaves
\* the backend or the index.  The victim leaves the index also when it is
\* not in the backend (gone: the tracked keys that expiry has taken out of
\* the backend), and the set succeeds.
C33_EvictionOnAdmission ==
    \A k \in OrderKeys, v \in EvValues, ttl \in EvTTLs,
       gone \in SUBSET IndexKeys :
        LET b == BackendWithout(Backend, enable_metadata, gone)
            r == Evict_set(strategy, Index, b, enable_metadata, closed,
                           k, v, ttl, now)
            after == IndexKeysOf(strategy, r.index)
            out == IndexKeys \ after
            full == Len(Index) >= strategy.max_size
        IN /\ r.raised = "" /\ r.ok
           /\ r.store[k] = v
           /\ after = (IndexKeys \ out) \cup {k}
           /\ DOMAIN r.store = (DOMAIN b.store \ out) \cup {k}
           /\ Len(r.index) = Cardinality(after)
           /\ IF k \notin IndexKeys /\ full
              THEN Cardinality(out) = 1 /\ k \notin out
              ELSE out = {}

\* The index is full, and the set of a new key evicts one key and succeeds,
\* also when the backend holds none of the tracked keys any more.
C33_Witness ==
    /\ Len(Index) = strategy.max_size
    /\ IndexKeys = DOMAIN store
    /\ "d" \notin IndexKeys
    /\ \A b \in {Backend, BackendWithout(Backend, enable_metadata, IndexKeys)} :
          LET r == Evict_set(strategy, Index, b, enable_metadata, closed,
                             "d", "v1", None, now)
          IN /\ r.ok
             /\ Cardinality(IndexKeys \ IndexKeysOf(strategy, r.index)) = 1
             /\ Cardinality(DOMAIN r.store) <= strategy.max_size

----------------------------------------------------------------------------
(* Claims about what the refresh thread writes after a removal (SpecStop)   *)

\* A refresh thread has taken a step.
WorkerStepTaken == Len(workers') = Len(workers) /\ workers' # workers

\* C34: once clear or a delete that found the key has returned, the refresh
\* thread never writes a removed key back: while the application is between
\* two calls no step of a refresh thread adds a key to the backend or to
\* _refresh_times.  Violated: a refresh that found the key before the
\* removal goes on to backend.set and to the assignment of the timestamp.
C34_NoResurrection ==
    [][pc[1] = "idle" /\ pc'[1] = "idle" /\ WorkerStepTaken =>
          /\ DOMAIN store' \subseteq DOMAIN store
          /\ QueueKeys(_refresh_times') \subseteq QueueKeys(_refresh_times)]_vars

\* What holds: a refresh thread adds a key only at backend.set or at the
\* assignment of the timestamp of a refresh whose callback has returned.
C34_OnlyRefreshInFlightWrites ==
    [][WorkerStepTaken /\
       (DOMAIN store' # DOMAIN store
           \/ QueueKeys(_refresh_times') # QueueKeys(_refresh_times)) =>
          \E i \in 1..Len(workers) :
              /\ workers[i].at \in {"set", "stamp"}
              /\ workers'[i] # workers[i]]_vars

----------------------------------------------------------------------------
(* Claims about the expiry of a key that is set again (SpecRT)              *)

\* The record m1 is the record m with its creation time, access count and
\* last access, and the expiry e.
KeptWithExpiry(m, m1, e) ==
    /\ m1.created_at = m.created_at
    /\ m1.access_count = m.access_count
    /\ m1.last_accessed = m.last_accessed
    /\ m1.expires_at = e

\* The key never expires in the backend b.
NeverExpires(b, k) ==
    \A t \in now..(MaxTime + 3) : ~_is_expired(b, enable_metadata, k, t)

\* The keys that have an expiry.
WithExpiry == {k \in DOMAIN meta : ~IsNone(meta[k].expires_at)}

\* The backend in which k holds None.
HoldingNone(k) == [store |-> Put(store, k, NoValue), meta |-> meta]

\* A plain backend.set and the rewrite of the refresh thread keep the record
\* of a key that has an expiry and reset the expiry; a set with a ttl keeps
\* the record and puts the expiry at now + ttl.
SetKeepsRecord(k) ==
    /\ LET r == backend_set(Backend, enable_metadata, k, "v2", None, now)
       IN KeptWithExpiry(meta[k], r.meta[k], None) /\ NeverExpires(r, k)
    /\ LET x == RA_refresh_key(<<>>, Backend, enable_metadata, closed, k,
                               "v2", now)
       IN x.ok => KeptWithExpiry(meta[k], x.meta[k], None)
                     /\ NeverExpires(x, k)
    /\ \A ttl \in CallTTLs \ {None} :
          LET r == backend_set(Backend, enable_metadata, k, "v2", ttl, now)
          IN KeptWithExpiry(meta[k], r.meta[k], Some(now + The(ttl)))

\* C35 as stated: when a key that has an expiry is set again with no ttl, by
\* a plain backend.set, a miss-population or a rewrite of the refresh thread,
\* its record is kept and its expiry is reset to none, so that it never
\* expires; a set with a ttl puts the expiry at now + ttl.  Violated: the
\* miss that precedes the population of an expired key has deleted the
\* record, and the population makes a new one.
C35_SetWithoutTTL ==
    ~closed =>
        \A k \in WithExpiry \cap RTKeys :
            /\ SetKeepsRecord(k)
            /\ LET g == RT_get(strategy, Backend, enable_metadata, closed, k,
                               Some("v1"), "v1", FALSE, now)
               IN g.calls # <<>> =>
                     KeptWithExpiry(meta[k], g.meta[k], None)
                        /\ NeverExpires(g, k)

\* C35: a set with no ttl of a key that has an expiry keeps the record when
\* it is there at the time of the write (a plain backend.set, a rewrite of
\* the refresh thread, the population of a key that holds None) and resets
\* the expiry; the population of an expired key finds the record deleted and
\* makes a new one without an expiry.  In each case the key never expires
\* afterwards.  A set with a ttl puts the expiry at now + ttl.
C35_SetWithoutTTLOfLiveRecord ==
    ~closed =>
        \A k \in WithExpiry \cap RTKeys :
            /\ SetKeepsRecord(k)
            /\ LET g == RT_get(strategy, Backend, enable_metadata, closed, k,
                               Some("v1"), "v1", FALSE, now)
                   n == RT_get(strategy, HoldingNone(k), enable_metadata,
                               closed, k, Some("v1"), "v1", FALSE, now)
                   expired == _is_expired(Backend, enable_metadata, k, now)
               IN /\ g.calls # <<>> <=> expired
                  /\ expired =>
                        /\ g.meta[k] = NewMetadata(None, now)
                        /\ n.meta[k] = NewMetadata(None, now)
                        /\ NeverExpires(g, k)
                  /\ ~expired =>
                        /\ n.calls # <<>>
                        /\ n.store[k] = "v1"
                        /\ KeptWithExpiry(meta[k], n.meta[k], None)
                        /\ NeverExpires(n, k)

\* One key has an expiry that has not come, was set before now and has been
\* read; another has expired.
C35_Witness ==
    /\ ~closed
    /\ \E k \in WithExpiry \cap RTKeys :
          /\ ~_is_expired(Backend, enable_metadata, k, now)
          /\ meta[k].created_at < now
          /\ meta[k].access_count > 0
          /\ backend_set(Backend, enable_metadata, k, "v2", None,
                         now).meta[k].created_at < now
    /\ \E k \in WithExpiry \cap RTKeys :
          /\ _is_expired(Backend, enable_metadata, k, now)
          /\ RT_get(strategy, Backend, enable_metadata, closed, k, Some("v1"),
                    "v1", FALSE, now).meta[k].created_at = now

----------------------------------------------------------------------------
(* Claims about the pending writes of one key (SpecWB)                      *)

\* The calls of write_callback for k among calls.
CallsFor(calls, k) == SelectSeq(calls, LAMBDA c : c[2] = k)

\* C36: _write_queue holds at most one entry per key; when a key is set
\* twice before a flush (v1, then v2), the flush calls write_callback for it
\* once, with v2; an entry that failed is put back with the value that
\* failed, and a later set of the key replaces it.
C36_Coalescing ==
    /\ Len(_write_queue) = Cardinality(QueueKeys(_write_queue))
    /\ strategy.has_callback /\ ~closed =>
          \A k \in WBKeys, fail \in BOOLEAN :
              LET fails == IF fail THEN {k} ELSE {}
                  r1 == WB_set(strategy, _write_queue, _last_flush, ds,
                               Backend, enable_metadata, closed, k, "v1",
                               None, now, {})
                  r2 == WB_set(strategy, r1.queue, r1.last_flush, r1.ds, r1,
                               enable_metadata, closed, k, "v2", None, now,
                               {})
                  f == _flush(r2.queue, r2.last_flush, r2.ds, now, fails)
                  r3 == WB_set(strategy, f.queue, f.last_flush, f.ds, r2,
                               enable_metadata, closed, k, "v1", None, now,
                               fails)
              IN /\ Len(r2.queue) = Cardinality(QueueKeys(r2.queue))
                 /\ r1.calls = <<>> /\ r2.calls = <<>> =>
                       /\ [key |-> k, value |-> "v2"] \in QueueItems(r2.queue)
                       /\ CallsFor(f.calls, k) =
                             << <<"write_callback", k, "v2",
                                  IF fail THEN "raised" ELSE "ok">> >>
                       /\ fail => [key |-> k, value |-> "v2"]
                                     \in QueueItems(f.queue)
                       /\ ~fail => k \notin QueueKeys(f.queue) /\ f.ds[k] = "v2"
                       /\ fail =>
                             /\ Len(r3.queue) = Cardinality(QueueKeys(r3.queue))
                             /\ \A e \in QueueItems(r3.queue) :
                                   e.key = k => e.value = "v1"
                             /\ \A c \in QueueItems([i \in 1..Len(r3.calls) |->
                                                       r3.calls[i]]) :
                                   c[2] = k => c[3] = "v1"

\* The key a is pending with v1, a set of a with v2 triggers no flush, and
\* the flush that follows calls write_callback once, with v2.
C36_Witness ==
    /\ strategy.has_callback
    /\ last.op = "set" /\ last.key = "a" /\ last.calls = <<>>
    /\ _write_queue = <<[key |-> "a", value |-> "v1"]>>
    /\ LET r == WB_set(strategy, _write_queue, _last_flush, ds, Backend,
                       enable_metadata, closed, "a", "v2", None, now, {})
           f == _flush(r.queue, r.last_flush, r.ds, now, {})
       IN /\ r.calls = <<>>
          /\ r.queue = <<[key |-> "a", value |-> "v2"]>>
          /\ f.calls = << <<"write_callback", "a", "v2", "ok">> >>

\* C38: WriteBackStrategy.delete(backend, k) takes k out of the backend and
\* leaves the queue, the time of the last flush and the data store as they
\* are, calling nothing; the next flush still calls write_callback for every
\* pending entry, that of k included.
C38_DeleteKeepsQueue ==
    ~closed =>
        \A k \in WBKeys :
            LET r == WB_delete(_write_queue, _last_flush, ds, Backend,
                               enable_metadata, closed, k)
                f == _flush(r.queue, r.last_flush, r.ds, now, {})
            IN /\ r.raised = "" /\ r.ok = (k \in DOMAIN store)
               /\ k \notin DOMAIN r.store
               /\ DOMAIN r.store = DOMAIN store \ {k}
               /\ r.queue = _write_queue
               /\ r.last_flush = _last_flush
               /\ r.ds = ds
               /\ r.calls = <<>>
               /\ \A e \in QueueItems(_write_queue) :
                     /\ <<"write_callback", e.key, e.value, "ok">>
                           \in QueueItems(f.calls)
                     /\ f.ds[e.key] = e.value

\* A delete has just removed from the backend a key whose write is pending,
\* and the flush delivers it.
C38_Witness ==
    /\ last.op = "delete" /\ last.ok
    /\ last.key \notin DOMAIN store
    /\ last.key \in QueueKeys(_write_queue)
    /\ last.key \notin DOMAIN ds
    /\ LET f == _flush(_write_queue, _last_flush, ds, now, {})
       IN last.key \in DOMAIN f.ds

----------------------------------------------------------------------------
(* SpecWBConc: NumThreads threads call set and flush on one                 *)
(* WriteBackStrategy and one MemoryBackend, with no CacheManager around     *)
(* the calls.  set runs backend.set under the backend's lock and then,      *)
(* under the strategy's lock, the assignment to the queue and _maybe_flush; *)
(* flush runs under the strategy's lock.  expect[k] is the value of the set *)
(* of k that entered the queue last.  The backend is a                      *)
(* MemoryBackend(enable_metadata=False), whose set is _set_impl under the   *)
(* backend's lock and nothing else.                                         *)

WBConcKeys == {"a"}

InitWBConc ==
    /\ InitBackend
    /\ enable_metadata = FALSE
    /\ InitStrategy
    /\ config = DefaultConfig
    /\ strategy \in {s \in WriteBackStrategies : s.has_callback}
    /\ pc = [t \in Threads |-> Idle]

WBConcFrame ==
    UNCHANGED <<enable_metadata, closed, now, config, strategy, evictVars,
                raVars>>

\* set, "result = backend.set(key, value, ttl)", which raises on a closed
\* backend.
WC_SetBackend(t, k, v) ==
    LET r == Base_set(Backend, enable_metadata, closed, k, v, None, now)
    IN /\ pc[t] = Idle
       /\ store' = r.store
       /\ meta' = r.meta
       /\ pc' = IF r.raised # "" THEN pc
                ELSE [pc EXCEPT ![t] = [op |-> "set", key |-> k, value |-> v]]
       /\ last' = IF r.raised # "" THEN Call("set", k, r) ELSE last
       /\ UNCHANGED <<expect, wbVars, ds>>
       /\ WBConcFrame

\* set, the lines under "with self._lock" and the return.
WC_SetLocked(t, fails) ==
    LET k == pc[t].key
        w == _maybe_flush(strategy, QueuePut(_write_queue, k, pc[t].value),
                          _last_flush, ds, now, fails)
    IN /\ pc[t].op = "set"
       /\ fails \subseteq QueueKeys(_write_queue) \cup {k}
       /\ _write_queue' = w.queue
       /\ _last_flush' = w.last_flush
       /\ ds' = w.ds
       /\ expect' = Put(expect, k, pc[t].value)
       /\ pc' = [pc EXCEPT ![t] = Idle]
       /\ last' = Call("set", k, WBRet(Ret(Backend, NoValue, TRUE, <<>>), w))
       /\ UNCHANGED <<store, meta>>
       /\ WBConcFrame

\* flush
WC_Flush(t, fails) ==
    LET r == WB_flush(_write_queue, _last_flush, ds, Backend, now, fails)
    IN /\ pc[t] = Idle
       /\ fails \subseteq QueueKeys(_write_queue)
       /\ _write_queue' = r.queue
       /\ _last_flush' = r.last_flush
       /\ ds' = r.ds
       /\ last' = Call("flush", "", r)
       /\ UNCHANGED <<store, meta, expect, pc>>
       /\ WBConcFrame

WC_Tick ==
    /\ now < MaxTime
    /\ now' = now + 1
    /\ UNCHANGED <<backendVars, config, strategy, expect, last, strategyVars>>

NextWBConc ==
    \/ WC_Tick
    \/ \E t \in Threads, k \in WBConcKeys, v \in WBValues :
          WC_SetBackend(t, k, v)
    \/ \E t \in Threads, fails \in SUBSET WBConcKeys : WC_SetLocked(t, fails)
    \/ \E t \in Threads, fails \in SUBSET WBConcKeys : WC_Flush(t, fails)

SpecWBConc == InitWBConc /\ [][NextWBConc]_vars

----------------------------------------------------------------------------
(* Claims about concurrent sets of the write-back strategy (SpecWBConc)     *)

\* Every call has returned, and the last one was a flush whose callbacks
\* all succeeded.
FlushedAtRest ==
    /\ \A t \in Threads : pc[t] = Idle
    /\ last.op = "flush"
    /\ _write_queue = <<>>

\* C37: when two threads have set the same key with different values, both
\* calls have returned and a flush whose callbacks succeeded has completed,
\* the value last delivered to write_callback for the key is the value the
\* backend holds.  Violated: backend.set runs before and outside the
\* strategy's lock, so the two sets can write the backend in one order and
\* the queue in the other.
C37_Convergence ==
    FlushedAtRest =>
        \A k \in DOMAIN ds \cap DOMAIN store : ds[k] = store[k]

\* What holds: after such a flush the value last delivered for a key is that
\* of the set that entered the queue last, and the backend holds a value
\* that one of the sets wrote.
C37_DeliveredIsLastQueued ==
    FlushedAtRest =>
        /\ DOMAIN ds = DOMAIN expect
        /\ \A k \in DOMAIN ds : ds[k] = expect[k] /\ store[k] \in WBValues

----------------------------------------------------------------------------
(* SpecReentrant: two callers use one CacheManager whose strategy is a      *)
(* CacheAsideStrategy or a WriteBackStrategy with a write callback, and a   *)
(* callback of the application may call the manager again.  The threads,    *)
(* programs and locks are those of SpecLock.                                *)

ReentrantStrategies ==
    {[kind |-> "cache_aside", default_ttl |-> None]}
    \cup {s \in WriteBackStrategies :
              s.has_callback /\ s.flush_interval = Wait}

\* The operations of CacheManager a callback calls.
ReentrantOps == {"get", "set", "delete", "exists", "clear", "size"}

InitReentrant ==
    /\ InitBackend
    /\ InitStrategy
    /\ ~enable_metadata
    /\ config = DefaultConfig
    /\ strategy \in ReentrantStrategies
    /\ pc = [n \in CallerIds |-> IdleThread]

\* The miss callback or the write callback, run inside an operation of the
\* manager, calls the operation op of the same manager: the thread runs the
\* inner call, from "with self._lock", before the callback returns.
R_Reenter(t, op, k) ==
    /\ Running(t)
    /\ LET th == Thr(t)
           x == Head(th.prog)
       IN /\ x.i = "do"
          /\ x.a \in {"miss_callback", "wb.write"}
          /\ "manager" \in th.holds
          /\ op \in KeyOps <=> k \in KeysOf(strategy)
          /\ op \in NoKeyOps <=> k = ""
          /\ pc' = [pc EXCEPT ![t[2]] =
                       [th EXCEPT !.prog =
                            Manager_prog(config, strategy, op, k) \o @]]
    /\ UNCHANGED <<store, meta, closed, now, access_order, wbVars, raVars>>
    /\ LockFrame

NextReentrant ==
    \/ L_Tick
    \/ \E t \in Callers, op \in KeyOps \cup NoKeyOps, k \in LockKeys \cup {""},
          cb \in LockCallbacks : L_Call(t, op, k, cb)
    \/ \E t \in Callers : L_Acquire(t)
    \/ \E t \in Callers : L_Release(t)
    \/ \E t \in Callers : L_Backend(t)
    \/ \E t \in Callers : L_Branch(t)
    \/ \E t \in Callers : L_Locked(t)
    \/ \E t \in Callers, v \in LockRefreshValues, raises \in BOOLEAN :
          L_Callback(t, v, raises)
    \/ \E t \in Callers, op \in ReentrantOps, k \in LockKeys \cup {""} :
          R_Reenter(t, op, k)

SpecReentrant == InitReentrant /\ [][NextReentrant]_vars

----------------------------------------------------------------------------
(* Claims about callbacks that call the manager (SpecReentrant).            *)

\* The thread is in a call of the manager made by a callback that runs
\* inside a call of the same manager: it holds the manager's lock and its
\* next instruction takes it.
Reentered(t) == Holds(t, "manager") /\ Wants(t, "manager")

\* C39: once a miss callback or a write callback that runs inside an
\* operation of a CacheManager has called get, set, delete, exists, clear or
\* size of the same manager, the inner call never takes the manager's lock
\* and the outer call never returns (the thread stays where it is), and
\* every other thread that is at the entry of an operation of the manager
\* stays there.
C39_ReentrantCallbackBlocks ==
    [][\A t \in Callers :
           Reentered(t) =>
               /\ Thr(t)' = Thr(t)
               /\ \A u \in Callers \ {t} :
                      /\ ~Holds(u, "manager")'
                      /\ Wants(u, "manager") => Thr(u)' = Thr(u)]_vars

\* A callback has called the manager again while the other caller is at the
\* entry of an operation of the manager.
C39_Witness ==
    \E t \in Callers, u \in Callers :
        /\ t # u
        /\ Reentered(t)
        /\ Wants(u, "manager")

\* The same for the write callback of a flush, which runs under the
\* strategy's lock as well.
C39_WitnessWriteCallback ==
    \E t \in Callers, u \in Callers :
        /\ t # u
        /\ Reentered(t)
        /\ Holds(t, "strategy")
        /\ Wants(u, "manager")

----------------------------------------------------------------------------
(* Claims about the order of the LFU index (SpecOrder).                     *)

\* The place of the key k in the dict c: a dict keeps its keys in the order
\* in which they entered it.
PlaceOf(c, k) == CHOOSE i \in 1..Len(c) : c[i].key = k

\* The keys of the dict c that hold its least count.
LeastUsed(c) ==
    {j \in CountKeys(c) :
         \A i \in CountKeys(c) : CountOf(c, j) <= CountOf(c, i)}

\* The keys that are in both dicts are in the same order in both.
SameOrder(c, d) ==
    \A i \in CountKeys(c) \cap CountKeys(d) :
        \A j \in CountKeys(c) \cap CountKeys(d) :
            PlaceOf(c, i) < PlaceOf(c, j) <=> PlaceOf(d, i) < PlaceOf(d, j)

C40_Call(k, c) ==
    LET idx == access_counts
        out == c.r.index
        victims == CountKeys(idx) \ CountKeys(out)
        hit == c.op = "get" /\ c.r.calls = <<>> /\ c.r.value # NoValue
    IN /\ \A v \in victims :
              /\ v \in LeastUsed(idx)
              /\ \A j \in LeastUsed(idx) : PlaceOf(idx, v) <= PlaceOf(idx, j)
       /\ k \in CountKeys(out) \ CountKeys(idx) =>
              /\ PlaceOf(out, k) = Len(out)
              /\ Admits(c) => CountOf(out, k) = 0
       /\ \A j \in CountKeys(idx) \cap CountKeys(out) :
              CountOf(out, j) =
                  CountOf(idx, j) + (IF j = k /\ hit THEN 1 ELSE 0)
       /\ SameOrder(idx, out)

\* C40: under LFU, whatever set or get comes next, a key that the call
\* admits enters the index last and with count 0, an overwriting set leaves
\* every count as it is, a get hit adds exactly 1 to the count of its key and
\* nothing to the others, the keys that stay keep their order of entry (a
\* delete takes its key out and leaves the order of the others), and the
\* victim of an eviction is, among the tracked keys that share the least
\* count, the one that entered the index earliest.
C40_LFUTieBreak ==
    strategy.kind = "lfu" =>
        \A k \in OrderKeys :
            /\ \A c \in NextCalls(k) : C40_Call(k, c)
            /\ LET d == Evict_delete(strategy, Index, Backend,
                                     enable_metadata, closed, k).index
               IN /\ CountKeys(d) \subseteq CountKeys(access_counts)
                  /\ SameOrder(access_counts, d)

\* LFU(2) holds b and a with count 0 each, b before a because a was deleted
\* and written again; the set of a has just returned, and the next new key
\* evicts b.
C40_Witness ==
    /\ strategy.kind = "lfu" /\ strategy.max_size = 2
    /\ access_counts = <<[key |-> "b", count |-> 0],
                         [key |-> "a", count |-> 0]>>
    /\ last.op = "set" /\ last.key = "a"
    /\ CountKeys(NextSet("c").index) = {"a", "c"}
    /\ DOMAIN NextSet("c").store = {"a", "c"}

====
